---- MODULE Spec2Model ----
(***************************************************************************)
(* A model of yamlprocessor's DataProcessor (src/src/yamlprocessor/        *)
(* dataprocess.py): variable substitution in strings, include-file search, *)
(* and the worklist traversal of process_data with its in-place splices.   *)
(*                                                                         *)
(* Strings are sequences of one-character strings, so that the regular     *)
(* expressions of the code are modelled character by character.  Python    *)
(* objects that the code shares or mutates in place (dict, list) live in   *)
(* heaps indexed by object identity.                                       *)
(***************************************************************************)
EXTENDS Integers, Sequences, FiniteSets, TLC

(***************************************************************************)
(* Characters and character classes of the regular expressions.           *)
(***************************************************************************)
Upper == {"A","B","C","D","E","F","G","H","I","J","K","L","M",
          "N","O","P","Q","R","S","T","U","V","W","X","Y","Z"}
Lower == {"a","b","c","d","e","f","g","h","i","j","k","l","m",
          "n","o","p","q","r","s","t","u","v","w","x","y","z"}
Digit == {"0","1","2","3","4","5","6","7","8","9"}

\* [A-z_] : the range A-z also holds the characters between Z and a (the
\* backquote, which no input of the model holds, is left out).
NameStartChars == Upper \cup Lower \cup {"[", "\\", "]", "^", "_"}
\* \w
WordChars == Upper \cup Lower \cup Digit \cup {"_"}

\* The character at position i of s, or "" outside s.
At(s, i) == IF i \in 1..Len(s) THEN s[i] ELSE ""

\* Whether p occurs in s at position i.
StartsWithAt(s, i, p) ==
    /\ i >= 1
    /\ i + Len(p) - 1 <= Len(s)
    /\ \A k \in 1..Len(p) : s[i + k - 1] = p[k]

StartsWith(s, p) == StartsWithAt(s, 1, p)

\* s[i..] (Python s[i-1:])
Drop(s, i) == IF i > Len(s) THEN <<>> ELSE SubSeq(s, i, Len(s))

\* The last position of the maximal run of \w characters starting at i
\* (i - 1 when the run is empty).
WordRunEnd(s, i) ==
    IF i > Len(s) THEN i - 1
    ELSE CHOOSE j \in (i - 1)..Len(s) :
            /\ \A k \in i..j : s[k] \in WordChars
            /\ At(s, j + 1) \notin WordChars

\* The number of backslashes that immediately precede position q.
BackslashRun(s, q) ==
    CHOOSE n \in 0..(q - 1) :
        /\ \A k \in (q - n)..(q - 1) : s[k] = "\\"
        /\ At(s, q - n - 1) # "\\"

CAST_INT == <<".", "i", "n", "t">>
CAST_FLOAT == <<".", "f", "l", "o", "a", "t">>
CAST_BOOL == <<".", "b", "o", "o", "l">>

\* The cast group at position i: (?P<cast>\.(?:int|float|bool))?
CastAt(s, i) ==
    IF StartsWithAt(s, i, CAST_INT) THEN CAST_INT
    ELSE IF StartsWithAt(s, i, CAST_FLOAT) THEN CAST_FLOAT
    ELSE IF StartsWithAt(s, i, CAST_BOOL) THEN CAST_BOOL
    ELSE <<>>

\* The symbol group tried at position q:
\*   \$ (\{)? [A-z_]\w* (\.(int|float|bool))? (?(brace_open)\})
\* The name is the maximal run (a shorter name is never followed by "." or
\* "}"), and with an opening brace the closing brace must follow the cast.
\* ns and ne are the first and last positions of the name.
TokenParts(s, q, brace, ns, ne, cast) ==
    [ok |-> /\ At(s, q) = "$"
            /\ At(s, ns) \in NameStartChars
            /\ (brace => At(s, ne + Len(cast) + 1) = "}"),
     name |-> IF ns <= ne /\ ne <= Len(s) THEN SubSeq(s, ns, ne) ELSE <<>>,
     cast |-> cast,
     end |-> IF brace THEN ne + Len(cast) + 1 ELSE ne + Len(cast)]

TokenName(s, q, brace, ns, ne) ==
    TokenParts(s, q, brace, ns, ne, CastAt(s, ne + 1))

TokenBrace(s, q, brace, ns) ==
    TokenName(s, q, brace, ns, WordRunEnd(s, ns + 1))

TokenAt(s, q) ==
    TokenBrace(s, q, At(s, q + 1) = "{",
               IF At(s, q + 1) = "{" THEN q + 2 ELSE q + 1)

NoMatch ==
    [matched |-> FALSE, head |-> <<>>, escape |-> 0, symbol |-> <<>>,
     name |-> <<>>, cast |-> <<>>, tail |-> <<>>]

\* The groups of a match whose symbol is the token t at q, after n
\* backslashes.
Groups(s, q, t, n) ==
    [matched |-> TRUE,
     head |-> SubSeq(s, 1, q - n - 1),
     escape |-> n,
     symbol |-> SubSeq(s, q, t.end),
     name |-> t.name,
     cast |-> t.cast,
     tail |-> Drop(s, t.end + 1)]

MatchFrom(s, qs) ==
    IF qs = {} THEN NoMatch
    ELSE Groups(s, CHOOSE x \in qs : \A y \in qs : x <= y,
                TokenAt(s, CHOOSE x \in qs : \A y \in qs : x <= y),
                BackslashRun(s, CHOOSE x \in qs : \A y \in qs : x <= y))

\* REC_SUBSTITUTE.match(tail): the head is as short as possible, so the
\* symbol is the leftmost one that matches and the escape group is the whole
\* run of backslashes before it.
Match(s) == MatchFrom(s, {q \in 1..Len(s) : TokenAt(s, q).ok})

(***************************************************************************)
(* Values of the document tree.  A scalar carries its text or number; a    *)
(* composite (dict or list) is a reference to an object of the heap.       *)
(***************************************************************************)
VStr(s) == [t |-> "str", s |-> s, n |-> 0]
VInt(n) == [t |-> "int", s |-> <<>>, n |-> n]
VFloat(s) == [t |-> "float", s |-> s, n |-> 0]
VBool(b) == [t |-> "bool", s |-> <<>>, n |-> IF b THEN 1 ELSE 0]
VNull == [t |-> "null", s |-> <<>>, n |-> 0]
VRef(i) == [t |-> "ref", s |-> <<>>, n |-> i]

IsStr(v) == v.t = "str"
IsRef(v) == v.t = "ref"

\* str.lower() on the letters of the model.
UpperSeq == <<"A","B","C","D","E","F","G","H","I","J","K","L","M",
              "N","O","P","Q","R","S","T","U","V","W","X","Y","Z">>
LowerSeq == <<"a","b","c","d","e","f","g","h","i","j","k","l","m",
              "n","o","p","q","r","s","t","u","v","w","x","y","z">>
LowerChar(c) ==
    IF c \in Upper THEN LowerSeq[CHOOSE i \in 1..26 : UpperSeq[i] = c] ELSE c
ToLower(s) == [i \in 1..Len(s) |-> LowerChar(s[i])]

DigitSeq == <<"0","1","2","3","4","5","6","7","8","9">>
DigitVal(c) == (CHOOSE i \in 1..10 : DigitSeq[i] = c) - 1

RECURSIVE DigitsValue(_)
DigitsValue(s) ==
    IF s = <<>> THEN 0
    ELSE 10 * DigitsValue(SubSeq(s, 1, Len(s) - 1)) + DigitVal(s[Len(s)])

AllDigits(s) == s # <<>> /\ \A i \in 1..Len(s) : s[i] \in Digit

\* int(text): an optional sign and decimal digits (surrounding blanks and
\* digit-group underscores, which int() also takes, are in no input here).
ParseDigits(body, negative) ==
    [ok |-> AllDigits(body),
     n |-> IF ~AllDigits(body) THEN 0
           ELSE IF negative THEN 0 - DigitsValue(body)
           ELSE DigitsValue(body)]

ParseInt(s) ==
    ParseDigits(IF At(s, 1) \in {"+", "-"} THEN Drop(s, 2) ELSE s,
                At(s, 1) = "-")

\* float(text) accepts [sign] digits [. digits] [e [sign] digits]; the
\* number is kept as its text.
IsMantissa(m) ==
    /\ \E i \in 1..Len(m) : m[i] \in Digit
    /\ \A i \in 1..Len(m) : m[i] \in Digit \cup {"."}
    /\ Cardinality({i \in 1..Len(m) : m[i] = "."}) <= 1

IsExponent(e) ==
    \/ e = <<>>
    \/ /\ e[1] \in {"e", "E"}
       /\ AllDigits(IF At(e, 2) \in {"+", "-"} THEN Drop(e, 3)
                    ELSE Drop(e, 2))

IsUnsignedFloatText(body) ==
    \E i \in 1..Len(body) :
        IsMantissa(SubSeq(body, 1, i)) /\ IsExponent(Drop(body, i + 1))

IsFloatText(s) ==
    IsUnsignedFloatText(IF At(s, 1) \in {"+", "-"} THEN Drop(s, 2) ELSE s)

BOOL_FALSE == {<<"0">>, <<"f","a","l","s","e">>, <<"n","o">>}
BOOL_TRUE == {<<"1">>, <<"t","r","u","e">>, <<"y","e","s">>}

\* The result of an operation that may raise: err is "" on success, else
\* the exception, with its argument in arg.
Ok(v) == [err |-> "", arg |-> <<>>, val |-> v]
Raise(e, a) == [err |-> e, arg |-> a, val |-> VNull]

IntOrError(parsed, text) ==
    IF parsed.ok THEN Ok(VInt(parsed.n))
    ELSE Raise("ValueError: bad substitution value", text)

\* Lines 569-588: the cast of a substitute.
Cast(cast, substitute) ==
    IF ~IsStr(substitute)
    THEN (IF cast = CAST_INT THEN Ok(VInt(substitute.n))
          ELSE IF cast = CAST_FLOAT THEN Ok(VFloat(substitute.s))
          ELSE Raise("AttributeError", <<>>))
    ELSE IF cast = CAST_INT
    THEN IntOrError(ParseInt(substitute.s), substitute.s)
    ELSE IF cast = CAST_FLOAT
    THEN (IF IsFloatText(substitute.s)
          THEN Ok(VFloat(substitute.s))
          ELSE Raise("ValueError: bad substitution value", substitute.s))
    ELSE IF cast = CAST_BOOL /\ ToLower(substitute.s) \in BOOL_FALSE
    THEN Ok(VBool(FALSE))
    ELSE IF cast = CAST_BOOL /\ ToLower(substitute.s) \in BOOL_TRUE
    THEN Ok(VBool(TRUE))
    ELSE Raise("ValueError: bad substitution value", substitute.s)

(***************************************************************************)
(* Instants (datetime.datetime to the second) and the calendar.  An        *)
(* instant is aware (it has a UTC offset, in seconds) or naive.            *)
(***************************************************************************)
Instant(year, month, day, hour, minute, second, aware, utcoffset) ==
    [year |-> year, month |-> month, day |-> day, hour |-> hour,
     minute |-> minute, second |-> second, aware |-> aware,
     utcoffset |-> utcoffset]

IsLeap(year) == (year % 4 = 0 /\ year % 100 # 0) \/ year % 400 = 0

DAYS_IN_MONTH == <<31, 28, 31, 30, 31, 30, 31, 31, 30, 31, 30, 31>>
DAYS_BEFORE_MONTH == <<0, 31, 59, 90, 120, 151, 181, 212, 243, 273, 304, 334>>

\* calendar.monthrange(year, month)[1]
DaysInMonth(year, month) ==
    IF month = 2 /\ IsLeap(year) THEN 29 ELSE DAYS_IN_MONTH[month]

DaysBeforeYear(year) ==
    (year - 1) * 365 + (year - 1) \div 4 - (year - 1) \div 100
    + (year - 1) \div 400

DaysBeforeMonth(year, month) ==
    DAYS_BEFORE_MONTH[month] + (IF month > 2 /\ IsLeap(year) THEN 1 ELSE 0)

\* date.toordinal(): day 1 is 0001-01-01.
ToOrdinal(year, month, day) ==
    DaysBeforeYear(year) + DaysBeforeMonth(year, month) + day

\* The year and the month that hold the day of ordinal n.
YearOfOrdinal(n) ==
    CHOOSE y \in ((n - 1) \div 366 + 1)..((n - 1) \div 365 + 1) :
        DaysBeforeYear(y) < n /\ n <= DaysBeforeYear(y + 1)

MonthOfDay(year, n) ==
    CHOOSE m \in 1..12 :
        /\ DaysBeforeMonth(year, m) < n
        /\ n <= DaysBeforeMonth(year, m) + DaysInMonth(year, m)

\* date.fromordinal(n), with the time of day of second sod, for the year
\* year and its month month.
OnDay(dto, n, year, month, sod) ==
    [dto EXCEPT !.year = year, !.month = month,
                !.day = n - DaysBeforeYear(year) - DaysBeforeMonth(year, month),
                !.hour = sod \div 3600, !.minute = (sod \div 60) % 60,
                !.second = sod % 60]

InYear(dto, n, year, sod) ==
    OnDay(dto, n, year, MonthOfDay(year, n - DaysBeforeYear(year)), sod)

\* The instant of day n, second sod of the day; a day out of the range of
\* datetime (the years 1 to 9999) is an OverflowError.
AtOrdinal(dto, n, sod) ==
    IF n < 1 \/ n > DaysBeforeYear(10000)
    THEN Raise("OverflowError", <<>>)
    ELSE [err |-> "", arg |-> <<>>, val |-> InYear(dto, n, YearOfOrdinal(n), sod)]

\* dto + datetime.timedelta(seconds=secs + 86400 * days): the wall clock
\* moves, the offset stays.
AddSeconds(dto, days, secs) ==
    AtOrdinal(dto,
              ToOrdinal(dto.year, dto.month, dto.day) + days
                  + (dto.hour * 3600 + dto.minute * 60 + dto.second + secs)
                        \div 86400,
              (dto.hour * 3600 + dto.minute * 60 + dto.second + secs) % 86400)

(***************************************************************************)
(* dateutil.relativedelta: relativedelta of delta_args, and dto + delta.   *)
(* delta_args is a function from the names of the arguments given to their *)
(* values, like the dict of the code.                                      *)
(***************************************************************************)
\* The argument k, or 0 when it is not given.
Relative(delta_args, k) ==
    IF k \in DOMAIN delta_args THEN delta_args[k] ELSE 0

\* "self.k or other.k": the absolute argument k when given and not 0.
AbsoluteOr(delta_args, k, other) ==
    IF k \in DOMAIN delta_args /\ delta_args[k] # 0 THEN delta_args[k]
    ELSE other

\* "if value is not None: repl[attr] = value"
Replaced(delta_args, k, other) ==
    IF k \in DOMAIN delta_args THEN delta_args[k] ELSE other

\* other.replace(repl) + timedelta(days, hours, minutes, seconds), the
\* year and the month being those after the years and the months were
\* added; replace() raises ValueError for a field out of its range.
Replace(dto, delta_args, year, month, hour, minute, second) ==
    IF \/ year < 1 \/ year > 9999
       \/ hour > 23 \/ minute > 59 \/ second > 59
    THEN Raise("ValueError", <<>>)
    ELSE AddSeconds(
             [dto EXCEPT
                 !.year = year, !.month = month,
                 !.day = IF DaysInMonth(year, month)
                              < AbsoluteOr(delta_args, "day", dto.day)
                         THEN DaysInMonth(year, month)
                         ELSE AbsoluteOr(delta_args, "day", dto.day),
                 !.hour = hour, !.minute = minute, !.second = second],
             Relative(delta_args, "days"),
             Relative(delta_args, "hours") * 3600
                 + Relative(delta_args, "minutes") * 60
                 + Relative(delta_args, "seconds"))

\* The years and months added to the month numbered index (12 * year +
\* month - 1): relativedelta keeps |months| <= 11 by carrying into years,
\* and __add__ carries month + months once into the year, which comes to
\* the same month of the same year.
AddMonths(dto, delta_args, index) ==
    Replace(dto, delta_args, index \div 12, (index % 12) + 1,
            Replaced(delta_args, "hour", dto.hour),
            Replaced(delta_args, "minute", dto.minute),
            Replaced(delta_args, "second", dto.second))

\* relativedelta.__radd__: dto + relativedelta of delta_args.  An absolute
\* month that is no month makes calendar.monthrange raise (a ValueError).
AddDelta(dto, delta_args) ==
    IF AbsoluteOr(delta_args, "month", dto.month) > 12
    THEN Raise("ValueError", <<>>)
    ELSE AddMonths(dto, delta_args,
                   12 * (AbsoluteOr(delta_args, "year", dto.year)
                         + Relative(delta_args, "years"))
                       + AbsoluteOr(delta_args, "month", dto.month) - 1
                       + Relative(delta_args, "months"))

(***************************************************************************)
(* datetime.strftime and strftime_with_colon_z.                            *)
(***************************************************************************)
Pad2(n) == <<DigitSeq[((n \div 10) % 10) + 1], DigitSeq[(n % 10) + 1]>>
Pad4(n) == Pad2(n \div 100) \o Pad2(n % 100)

Sign(n) == IF n >= 0 THEN <<"+">> ELSE <<"-">>
Abs(n) == IF n >= 0 THEN n ELSE 0 - n

\* %z of datetime.strftime: +HHMM, with SS when the offset has seconds,
\* and nothing for a naive instant.
UtcOffsetText(dto) ==
    IF ~dto.aware THEN <<>>
    ELSE Sign(dto.utcoffset) \o Pad2(Abs(dto.utcoffset) \div 3600)
         \o Pad2((Abs(dto.utcoffset) \div 60) % 60)
         \o (IF Abs(dto.utcoffset) % 60 = 0 THEN <<>>
             ELSE Pad2(Abs(dto.utcoffset) % 60))

\* The text for the format code %c (a code that is none of these is in no
\* format of the model).
StrftimeCode(dto, c) ==
    CASE c = "Y" -> Pad4(dto.year)
      [] c = "m" -> Pad2(dto.month)
      [] c = "d" -> Pad2(dto.day)
      [] c = "H" -> Pad2(dto.hour)
      [] c = "M" -> Pad2(dto.minute)
      [] c = "S" -> Pad2(dto.second)
      [] c = "F" -> Pad4(dto.year) \o <<"-">> \o Pad2(dto.month) \o <<"-">>
                    \o Pad2(dto.day)
      [] c = "T" -> Pad2(dto.hour) \o <<":">> \o Pad2(dto.minute) \o <<":">>
                    \o Pad2(dto.second)
      [] c = "z" -> UtcOffsetText(dto)
      [] c = "%" -> <<"%">>
      [] OTHER -> <<"%", c>>

\* dto.strftime(time_format)
RECURSIVE Strftime(_, _)
Strftime(dto, time_format) ==
    IF time_format = <<>> THEN <<>>
    ELSE IF time_format[1] = "%" /\ Len(time_format) >= 2
    THEN StrftimeCode(dto, time_format[2]) \o Strftime(dto, Drop(time_format, 3))
    ELSE <<time_format[1]>> \o Strftime(dto, Drop(time_format, 2))

\* str.replace(old, new)
RECURSIVE StrReplace(_, _, _)
StrReplace(s, old, new) ==
    IF s = <<>> THEN <<>>
    ELSE IF StartsWith(s, old)
    THEN new \o StrReplace(Drop(s, Len(old) + 1), old, new)
    ELSE <<s[1]>> \o StrReplace(Drop(s, 2), old, new)

\* "code in time_format"
Contains(s, p) == \E i \in 1..Len(s) : StartsWithAt(s, i, p)

EndsWith(s, p) == StartsWithAt(s, Len(s) - Len(p) + 1, p)

CODE_Z == <<"%", "z">>
CODE_COLON_Z == <<"%", ":", "z">>
CODE_COLON2_Z == <<"%", ":", ":", "z">>
CODE_COLON3_Z == <<"%", ":", ":", ":", "z">>

\* Lines 92-93 and 99-100: each of the four codes replaced by one text.
ReplaceCodes(time_format, new) ==
    StrReplace(StrReplace(StrReplace(StrReplace(time_format, CODE_Z, new),
                                     CODE_COLON_Z, new),
                          CODE_COLON2_Z, new),
               CODE_COLON3_Z, new)

\* Lines 105-114: the sign and HH:MM:SS of an offset in seconds.
OffsetStr(offset_total_seconds) ==
    Sign(offset_total_seconds)
    \o Pad2(Abs(offset_total_seconds) \div 3600) \o <<":">>
    \o Pad2((Abs(offset_total_seconds) \div 60) % 60) \o <<":">>
    \o Pad2(Abs(offset_total_seconds) % 60)

\* Only the first ":00" group at the end stripped.
ShortOffsetStrOnce(offset_str) ==
    IF EndsWith(offset_str, <<":", "0", "0">>)
    THEN SubSeq(offset_str, 1, Len(offset_str) - 3)
    ELSE offset_str

\* Lines 115-117
RECURSIVE ShortOffsetStr(_)
ShortOffsetStr(offset_str) ==
    IF EndsWith(offset_str, <<":", "0", "0">>)
    THEN ShortOffsetStr(SubSeq(offset_str, 1, Len(offset_str) - 3))
    ELSE offset_str

\* Lines 118-120
ColonCodesReplaced(time_format, offset_str) ==
    StrReplace(StrReplace(StrReplace(time_format, CODE_COLON_Z,
                                     SubSeq(offset_str, 1, 6)),
                          CODE_COLON2_Z, offset_str),
               CODE_COLON3_Z, ShortOffsetStr(offset_str))

\* strftime_with_colon_z(dto, time_format)
StrftimeWithColonZ(dto, time_format) ==
    IF ~dto.aware THEN Strftime(dto, ReplaceCodes(time_format, <<>>))
    ELSE IF dto.utcoffset = 0
    THEN Strftime(dto, ReplaceCodes(time_format, <<"Z">>))
    ELSE IF ~(\/ Contains(time_format, CODE_COLON_Z)
              \/ Contains(time_format, CODE_COLON2_Z)
              \/ Contains(time_format, CODE_COLON3_Z))
    THEN Strftime(dto, time_format)
    ELSE Strftime(dto, ColonCodesReplaced(time_format,
                                          OffsetStr(dto.utcoffset)))

(***************************************************************************)
(* Time variables: DataProcessor._process_time_variable and                *)
(* _process_time_variable_deltas.                                          *)
(***************************************************************************)
YP_TIME == <<"Y","P","_","T","I","M","E">>
YP_TIME_NOW == <<"Y","P","_","T","I","M","E","_","N","O","W">>
YP_TIME_REF == <<"Y","P","_","T","I","M","E","_","R","E","F">>
FORMAT_TAG == <<"_","F","O","R","M","A","T","_">>

MODIFIER_AT == <<"A", "T">>
MODIFIER_PLUS == <<"P", "L", "U", "S">>
MODIFIER_MINUS == <<"M", "I", "N", "U", "S">>

DATE_UNITS == {"Y", "M", "D"}
TIME_UNITS == {"H", "M", "S"}

\* The last position of the maximal run of digits starting at i (i - 1
\* when the run is empty).
DigitRunEnd(s, i) ==
    IF i > Len(s) THEN i - 1
    ELSE CHOOSE j \in (i - 1)..Len(s) :
            /\ \A k \in i..j : s[k] \in Digit
            /\ At(s, j + 1) \notin Digit

\* (?:\d+[units])+ tried at i: the last position of the maximal run of
\* number-and-unit pairs (i - 1 when there is none).
RECURSIVE UnitRunEnd(_, _, _)
UnitRunEnd(s, i, units) ==
    IF DigitRunEnd(s, i) >= i /\ At(s, DigitRunEnd(s, i) + 1) \in units
    THEN (IF UnitRunEnd(s, DigitRunEnd(s, i) + 2, units)
                 > DigitRunEnd(s, i) + 1
          THEN UnitRunEnd(s, DigitRunEnd(s, i) + 2, units)
          ELSE DigitRunEnd(s, i) + 1)
    ELSE i - 1

\* (?P<time>T(?:\d+[HMS])+)* tried at i, time_str being the group so far:
\* the group holds its last repetition.
RECURSIVE TimeGroup(_, _, _)
TimeGroup(s, i, time_str) ==
    IF At(s, i) = "T" /\ UnitRunEnd(s, i + 1, TIME_UNITS) > i
    THEN TimeGroup(s, UnitRunEnd(s, i + 1, TIME_UNITS) + 1,
                   SubSeq(s, i, UnitRunEnd(s, i + 1, TIME_UNITS)))
    ELSE [time_str |-> time_str, end |-> i - 1]

\* The modifier of "_(AT|PLUS|MINUS)_" at i, or "" when it is not there.
ModifierAt(s, i) ==
    IF StartsWithAt(s, i, <<"_">> \o MODIFIER_AT \o <<"_">>)
    THEN MODIFIER_AT
    ELSE IF StartsWithAt(s, i, <<"_">> \o MODIFIER_PLUS \o <<"_">>)
    THEN MODIFIER_PLUS
    ELSE IF StartsWithAt(s, i, <<"_">> \o MODIFIER_MINUS \o <<"_">>)
    THEN MODIFIER_MINUS
    ELSE <<>>

\* The groups of the match of REC_SUBSTITUTE_TIME_DELTA whose date group
\* is s[d..e] (empty when e < d), and the position after the match.
DeltaGroups(modifier_str, s, d, e, time) ==
    [modifier_str |-> modifier_str,
     date_str |-> IF e >= d THEN SubSeq(s, d, e) ELSE <<>>,
     time_str |-> time.time_str,
     end |-> time.end]

DeltaMatchAt(s, i, modifier_str) ==
    DeltaGroups(modifier_str, s, i + Len(modifier_str) + 2,
                UnitRunEnd(s, i + Len(modifier_str) + 2, DATE_UNITS),
                TimeGroup(s, UnitRunEnd(s, i + Len(modifier_str) + 2,
                                        DATE_UNITS) + 1,
                          <<>>))

\* REC_SUBSTITUTE_TIME_DELTA.findall(tail) from position i on: the
\* matches from left to right, none overlapping another.
RECURSIVE FindAllDeltas(_, _)
FindAllDeltas(tail, i) ==
    IF i > Len(tail) THEN <<>>
    ELSE IF ModifierAt(tail, i) = <<>> THEN FindAllDeltas(tail, i + 1)
    ELSE <<DeltaMatchAt(tail, i, ModifierAt(tail, i))>>
         \o FindAllDeltas(tail,
                          DeltaMatchAt(tail, i, ModifierAt(tail, i)).end + 1)

\* REC_DELTA_DATE.findall(s) and REC_DELTA_TIME.findall(s) from position i
\* on: the pairs (digits, unit), from left to right.
RECURSIVE FindAllUnits(_, _, _)
FindAllUnits(s, i, units) ==
    IF i > Len(s) THEN <<>>
    ELSE IF DigitRunEnd(s, i) >= i /\ At(s, DigitRunEnd(s, i) + 1) \in units
    THEN << [istr |-> SubSeq(s, i, DigitRunEnd(s, i)),
             unit |-> s[DigitRunEnd(s, i) + 1]] >>
         \o FindAllUnits(s, DigitRunEnd(s, i) + 2, units)
    ELSE FindAllUnits(s, i + 1, units)

\* modifier_map: the argument of relativedelta for a unit, absolute for
\* AT and relative for PLUS and MINUS.
DateArgument(modifier_str, unit) ==
    IF modifier_str = MODIFIER_AT
    THEN (CASE unit = "Y" -> "year" [] unit = "M" -> "month"
            [] unit = "D" -> "day")
    ELSE (CASE unit = "Y" -> "years" [] unit = "M" -> "months"
            [] unit = "D" -> "days")

TimeArgument(modifier_str, unit) ==
    IF modifier_str = MODIFIER_AT
    THEN (CASE unit = "H" -> "hour" [] unit = "M" -> "minute"
            [] unit = "S" -> "second")
    ELSE (CASE unit = "H" -> "hours" [] unit = "M" -> "minutes"
            [] unit = "S" -> "seconds")

\* int(sign + istr)
SignedInt(modifier_str, istr) ==
    IF modifier_str = MODIFIER_MINUS THEN 0 - DigitsValue(istr)
    ELSE DigitsValue(istr)

\* Lines 676-683: delta_args.update(...) with the pairs found, a later
\* pair for the same argument replacing an earlier one.
RECURSIVE UpdateArgs(_, _, _, _)
UpdateArgs(delta_args, modifier_str, pairs, is_date) ==
    IF pairs = <<>> THEN delta_args
    ELSE UpdateArgs(
             ((IF is_date THEN DateArgument(modifier_str, Head(pairs).unit)
               ELSE TimeArgument(modifier_str, Head(pairs).unit))
                  :> SignedInt(modifier_str, Head(pairs).istr))
             @@ delta_args,
             modifier_str, Tail(pairs), is_date)

\* Lines 673-684: the arguments of the relativedelta of one match.
DeltaArgs(m) ==
    UpdateArgs(UpdateArgs(<<>>, m.modifier_str,
                          FindAllUnits(m.date_str, 1, DATE_UNITS), TRUE),
               m.modifier_str,
               FindAllUnits(m.time_str, 1, TIME_UNITS), FALSE)

\* DataProcessor._process_time_variable_deltas: one delta for each match,
\* in the order of the matches.
ProcessTimeVariableDeltas(tail) ==
    [i \in 1..Len(FindAllDeltas(tail, 1)) |->
        DeltaArgs(FindAllDeltas(tail, 1)[i])]

\* The same deltas, the last first.
AddDeltasLastFirst(dto, deltas) ==
    IF deltas = <<>> THEN Ok(dto)
    ELSE IF Len(deltas) = 1 THEN AddDelta(dto, deltas[1])
    ELSE IF AddDelta(dto, deltas[Len(deltas)]).err # ""
    THEN AddDelta(dto, deltas[Len(deltas)])
    ELSE AddDelta(AddDelta(dto, deltas[Len(deltas)]).val, deltas[1])

\* Lines 620-621: "for delta in deltas: dto = dto + delta"
RECURSIVE AddDeltas(_, _)
AddDeltas(dto, deltas) ==
    IF deltas = <<>> THEN Ok(dto)
    ELSE IF AddDelta(dto, Head(deltas)).err # ""
    THEN AddDelta(dto, Head(deltas))
    ELSE AddDeltas(AddDelta(dto, Head(deltas)).val, Tail(deltas))

\* REC_SUBSTITUTE_TIME_FORMAT.search(tail): the name after the leftmost
\* "_FORMAT_" that a \w character follows; "" when there is none.
TimeFormatKeyAt(tail, ps) ==
    IF ps = {} THEN <<>>
    ELSE SubSeq(tail,
                (CHOOSE x \in ps : \A y \in ps : x <= y) + Len(FORMAT_TAG),
                WordRunEnd(tail, (CHOOSE x \in ps : \A y \in ps : x <= y)
                                 + Len(FORMAT_TAG)))

TimeFormatKey(tail) ==
    TimeFormatKeyAt(tail, {i \in 1..Len(tail) :
                              /\ StartsWithAt(tail, i, FORMAT_TAG)
                              /\ At(tail, i + Len(FORMAT_TAG)) \in WordChars})

\* Lines 622-629: the text of the instant under the format of the key.
TimeFormatted(P, name, dto, time_fmt_key) ==
    IF dto.err # "" THEN dto
    ELSE IF time_fmt_key \in DOMAIN P.time_formats
    THEN Ok(VStr(StrftimeWithColonZ(dto.val, P.time_formats[time_fmt_key])))
    ELSE Raise("UnboundVariableError", name)

\* Lines 615-629, for the base instant dto.
TimeVariableFrom(P, name, dto, tail) ==
    TimeFormatted(P, name, AddDeltas(dto, ProcessTimeVariableDeltas(tail)),
                  TimeFormatKey(tail))

\* DataProcessor._process_time_variable
ProcessTimeVariable(P, name) ==
    IF StartsWith(name, YP_TIME_NOW)
    THEN TimeVariableFrom(P, name, P.time_now, Drop(name, 12))
    ELSE IF StartsWith(name, YP_TIME_REF)
    THEN TimeVariableFrom(P, name, P.time_ref, Drop(name, 12))
    ELSE Raise("UnboundVariableError", name)

(***************************************************************************)
(* DataProcessor.process_variable                                          *)
(***************************************************************************)
UNBOUND_ORIGINAL == <<"Y","P","_","O","R","I","G","I","N","A","L">>

Backslashes(n) == [i \in 1..n |-> "\\"]

\* The time prefix tried before the scope.
ResolveOrderTimeFirst(P, variable_map, groups) ==
    IF StartsWith(groups.name, YP_TIME)
    THEN ProcessTimeVariable(P, groups.name)
    ELSE IF groups.name \in DOMAIN variable_map
    THEN Ok(variable_map[groups.name])
    ELSE IF P.unbound_placeholder = VStr(UNBOUND_ORIGINAL)
    THEN Ok(VStr(groups.symbol))
    ELSE IF P.unbound_placeholder # VNull
    THEN Ok(P.unbound_placeholder)
    ELSE Raise("UnboundVariableError", groups.name)

\* Lines 552-562: the substitute of a live token.
Resolve(P, variable_map, groups) ==
    IF groups.name \in DOMAIN variable_map
    THEN Ok(variable_map[groups.name])
    ELSE IF StartsWith(groups.name, YP_TIME)
    THEN ProcessTimeVariable(P, groups.name)
    ELSE IF P.unbound_placeholder = VStr(UNBOUND_ORIGINAL)
    THEN Ok(VStr(groups.symbol))
    ELSE IF P.unbound_placeholder # VNull
    THEN Ok(P.unbound_placeholder)
    ELSE Raise("UnboundVariableError", groups.name)

\* A result together with the names looked up in the scope on the way.
Looked(r, names) ==
    [err |-> r.err, arg |-> r.arg, val |-> r.val, looked |-> names]

RECURSIVE SubstituteLoop(_, _, _, _, _, _)

\* Lines 565-596, with the substitute found for the match.
SubstituteFound(P, variable_map, item, ret, tail, looked, groups, found) ==
    IF found.err # "" THEN Looked(found, looked)
    ELSE IF found.val # VStr(groups.symbol) /\ groups.cast # <<>>
    THEN (IF groups.head # <<>> \/ tail # item
          THEN Looked(Raise("ValueError: bad substitution expression", item),
                      looked)
          ELSE Looked(Cast(groups.cast, found.val), looked))
    ELSE IF ~IsStr(found.val)
    THEN Looked(Raise("TypeError", <<>>), looked)
    ELSE SubstituteLoop(
             P, variable_map, item,
             ret \o groups.head \o Backslashes(groups.escape \div 2)
                 \o found.val.s,
             groups.tail, looked)

\* The rest of the string after the last token left out.
SubstituteMatchTailDropped(P, variable_map, item, ret, tail, looked, groups) ==
    IF ~groups.matched THEN Looked(Ok(VStr(ret)), looked)
    ELSE IF groups.escape % 2 = 0
    THEN SubstituteFound(P, variable_map, item, ret, tail,
                         Append(looked, groups.name), groups,
                         Resolve(P, variable_map, groups))
    ELSE SubstituteFound(P, variable_map, item, ret, tail, looked, groups,
                         Ok(VStr(groups.symbol)))

\* Lines 549-564 and 597-599, with the groups of the match.
SubstituteMatch(P, variable_map, item, ret, tail, looked, groups) ==
    IF ~groups.matched THEN Looked(Ok(VStr(ret \o tail)), looked)
    ELSE IF groups.escape % 2 = 0
    THEN SubstituteFound(P, variable_map, item, ret, tail,
                         Append(looked, groups.name), groups,
                         Resolve(P, variable_map, groups))
    ELSE SubstituteFound(P, variable_map, item, ret, tail, looked, groups,
                         Ok(VStr(groups.symbol)))

\* Lines 547-600: the loop over the shrinking tail.
SubstituteLoop(P, variable_map, item, ret, tail, looked) ==
    IF tail = <<>> THEN Looked(Ok(VStr(ret)), looked)
    ELSE SubstituteMatch(P, variable_map, item, ret, tail, looked,
                         Match(tail))

ProcessVariable(P, item, variable_map) ==
    IF ~P.is_process_variable \/ ~IsStr(item)
    THEN Looked(Ok(item), <<>>)
    ELSE SubstituteLoop(P, variable_map, item.s, <<>>, item.s, <<>>)

(***************************************************************************)
(* File names (os.path on POSIX) and DataProcessor.get_filename.  A file   *)
(* system is a function from the absolute paths of its files to their      *)
(* documents; path segments "." and ".." are in no name of the model.      *)
(***************************************************************************)
STDIN_NAME == <<"-">>

IsAbs(f) == At(f, 1) = "/"

\* os.path.expanduser for "~" and "~/..." (no "~user" form in the model).
ExpandUser(P, f) ==
    IF At(f, 1) = "~" /\ (Len(f) = 1 \/ At(f, 2) = "/")
    THEN P.home \o Drop(f, 2)
    ELSE f

\* The head of a path cut after its last slash, without that slash and
\* the slashes before it unless it is slashes only.
DirHead(head) ==
    IF head # <<>> /\ \E k \in 1..Len(head) : head[k] # "/"
    THEN SubSeq(head, 1, CHOOSE j \in 1..Len(head) :
                             /\ head[j] # "/"
                             /\ \A k \in (j + 1)..Len(head) : head[k] = "/")
    ELSE head

LastSlash(f, slashes) ==
    IF slashes = {} THEN 0 ELSE CHOOSE x \in slashes : \A y \in slashes : y <= x

\* os.path.dirname
DirName(f) ==
    DirHead(SubSeq(f, 1, LastSlash(f, {i \in 1..Len(f) : f[i] = "/"})))

\* os.path.join(a, b)
Join(a, b) ==
    IF IsAbs(b) THEN b
    ELSE IF a = <<>> \/ a[Len(a)] = "/" THEN a \o b
    ELSE a \o <<"/">> \o b

\* os.path.abspath(d)
AbsPath(P, d) ==
    IF IsAbs(d) THEN d
    ELSE IF d = <<>> THEN P.cwd
    ELSE Join(P.cwd, d)

\* os.path.exists(name)
Exists(P, name) == name \in DOMAIN P.files

RECURSIVE ParentDirs(_, _)
ParentDirs(P, parent_filenames) ==
    IF parent_filenames = <<>> THEN <<>>
    ELSE (IF Head(parent_filenames) # STDIN_NAME
          THEN <<AbsPath(P, DirName(Head(parent_filenames)))>>
          ELSE <<>>)
         \o ParentDirs(P, Tail(parent_filenames))

\* Lines 404-412: the search directories, in the order they are tried.
RootDirs(P, parent_filenames) ==
    ParentDirs(P, parent_filenames) \o <<P.cwd>> \o P.include_paths

\* Lines 413-417: the first directory that holds the file.
FirstExisting(P, filename, root_dirs, hits) ==
    IF hits = {} THEN Raise("OSError: ENOENT", filename)
    ELSE Ok(VStr(Join(root_dirs[CHOOSE i \in hits : \A j \in hits : i <= j],
                      filename)))

SearchDirs(P, filename, root_dirs) ==
    FirstExisting(P, filename, root_dirs,
                  {i \in 1..Len(root_dirs) :
                      Exists(P, Join(root_dirs[i], filename))})

ExpandedFilename(P, filename, parent_filenames) ==
    IF IsAbs(filename) \/ filename = STDIN_NAME THEN Ok(VStr(filename))
    ELSE SearchDirs(P, filename, RootDirs(P, parent_filenames))

\* DataProcessor.get_filename
GetFilename(P, filename, parent_filenames) ==
    ExpandedFilename(P, ExpandUser(P, filename), parent_filenames)

(***************************************************************************)
(* The heap of dict and list objects.  A dict keeps its keys in insertion  *)
(* order, keys[i] going with vals[i]; a list has no keys.                  *)
(***************************************************************************)
ListNode(vals) == [kind |-> "list", keys |-> <<>>, vals |-> vals]
DictNode(keys, vals) == [kind |-> "dict", keys |-> keys, vals |-> vals]

\* type(value): "list", "dict" or the scalar's type.
TypeOf(h, v) == IF IsRef(v) THEN h[v.n].kind ELSE v.t

IsComposite(v) == IsRef(v)

DictHas(nd, k) == \E i \in 1..Len(nd.keys) : nd.keys[i] = k
DictIndex(nd, k) == CHOOSE i \in 1..Len(nd.keys) : nd.keys[i] = k
DictGet(nd, k) == nd.vals[DictIndex(nd, k)]

RemoveAt(seq, i) ==
    [j \in 1..(Len(seq) - 1) |-> IF j < i THEN seq[j] ELSE seq[j + 1]]

\* d[k] = v : a present key keeps its place, a new key goes last.
DictSet(nd, k, v) ==
    IF DictHas(nd, k)
    THEN [nd EXCEPT !.vals[DictIndex(nd, k)] = v]
    ELSE [nd EXCEPT !.keys = Append(@, k), !.vals = Append(@, v)]

\* del d[k]
DictDel(nd, k) ==
    [nd EXCEPT !.keys = RemoveAt(@, DictIndex(nd, k)),
               !.vals = RemoveAt(@, DictIndex(nd, k))]

(***************************************************************************)
(* Documents: what a file holds.  The objects of a document are numbered   *)
(* from 1; loading the file adds fresh copies of them to the heap.         *)
(***************************************************************************)
Shift(v, off) == IF IsRef(v) THEN VRef(v.n + off) ELSE v
ShiftNode(nd, off) ==
    [nd EXCEPT !.vals = [i \in 1..Len(nd.vals) |-> Shift(nd.vals[i], off)]]
ShiftNodes(nodes, off) == [i \in 1..Len(nodes) |-> ShiftNode(nodes[i], off)]

\* yaml.load of a document into the heap h.
Instantiate(h, doc) ==
    [heap |-> h \o ShiftNodes(doc.nodes, Len(h)),
     value |-> Shift(doc.root, Len(h))]

Loaded(inst) ==
    [err |-> "", arg |-> <<>>, heap |-> inst.heap, value |-> inst.value]

\* DataProcessor.load_file
LoadFile(P, h, filename) ==
    IF filename \in DOMAIN P.files
    THEN Loaded(Instantiate(h, P.files[filename]))
    ELSE [err |-> "FileNotFoundError", arg |-> filename,
          heap |-> h, value |-> VNull]

\* Lines 485-486: yaml.load(sys.stdin) reads the stream to its end; what it
\* loads is the document piped in, or None from a stream already at its end.
LoadFileStdin(P, h, at) ==
    IF at = "start" THEN Loaded(Instantiate(h, P.source.doc))
    ELSE Loaded([heap |-> h, value |-> VNull])

(***************************************************************************)
(* DataProcessor.load_file_schema and DataProcessor.validate_data.  The    *)
(* root source is P.source: its first line and the document its text       *)
(* parses to.  A schema is the JSON type it requires of the data.          *)
(***************************************************************************)
\* Lines 497-501: the line readline gives: sys.stdin is read from where it
\* was left, a file is opened anew.
FirstLine(P, filename, at) ==
    IF filename = STDIN_NAME /\ at = "eof" THEN <<>>
    ELSE P.source.first_line

\* Line 502
SCHEMA_PREFIXES ==
    <<<<"#","!">>,
      <<"#"," ","y","a","m","l","-","l","a","n","g","u","a","g","e","-",
        "s","e","r","v","e","r",":"," ","$","s","c","h","e","m","a","=">>>>

WhiteChars == {" ", "\t", "\n", "\r"}

RECURSIVE LStrip(_)
LStrip(s) ==
    IF s # <<>> /\ Head(s) \in WhiteChars THEN LStrip(Tail(s)) ELSE s

RECURSIVE RStrip(_)
RStrip(s) ==
    IF s # <<>> /\ s[Len(s)] \in WhiteChars
    THEN RStrip(SubSeq(s, 1, Len(s) - 1))
    ELSE s

\* str.strip()
Strip(s) == RStrip(LStrip(s))

\* Lines 502-506: the location after the first prefix the line starts
\* with, or None.
RECURSIVE SchemaOfLine(_, _)
SchemaOfLine(line, prefixes) ==
    IF prefixes = <<>> THEN VNull
    ELSE IF StartsWith(line, Head(prefixes))
    THEN VStr(Strip(Drop(line, Len(Head(prefixes)) + 1)))
    ELSE SchemaOfLine(line, Tail(prefixes))

\* DataProcessor.load_file_schema
LoadFileSchema(P, filename, at) ==
    SchemaOfLine(FirstLine(P, filename, at), SCHEMA_PREFIXES)

\* urlparse(schema_location).scheme is not empty
HasScheme(location) ==
    \E i \in 2..Len(location) :
        /\ location[i] = ":"
        /\ \A j \in 1..(i - 1) : location[j] \in Upper \cup Lower

FILE_URI == <<"f","i","l","e",":","/","/">>

\* Lines 700-706: the reference the schema is looked up by.
SchemaRef(P, location) ==
    IF HasScheme(location) THEN location
    ELSE IF AbsPath(P, location) \in DOMAIN P.schemas
    THEN FILE_URI \o AbsPath(P, location)
    ELSE IF P.schema_prefix # <<>> THEN P.schema_prefix \o location
    ELSE location

\* The reference names a schema that can be fetched.
Resolvable(P, ref) ==
    StartsWith(ref, FILE_URI) /\ Drop(ref, Len(FILE_URI) + 1) \in DOMAIN P.schemas

\* The JSON type of a value.
JsonType(h, v) ==
    CASE TypeOf(h, v) = "dict" -> "object"
      [] TypeOf(h, v) = "list" -> "array"
      [] TypeOf(h, v) = "str" -> "string"
      [] OTHER -> "null"

\* Lines 707-708: jsonschema.validate, the exception it raises or "".
JsonschemaValidate(P, h, ref, data) ==
    IF ~Resolvable(P, ref) THEN "RefResolutionError"
    ELSE IF P.schemas[Drop(ref, Len(FILE_URI) + 1)].type # JsonType(h, data)
    THEN "ValidationError"
    ELSE ""

\* DataProcessor.validate_data: the exception that leaves it, or "".
ValidateData(P, h, data, location) ==
    IF location = VNull \/ location.s = <<>> THEN ""
    ELSE JsonschemaValidate(P, h, SchemaRef(P, location.s), data)

(***************************************************************************)
(* DataProcessor._is_include and INCLUDE_SCHEMA                            *)
(***************************************************************************)
INCLUDE_KEY == <<"I","N","C","L","U","D","E">>
MERGE_KEY == <<"M","E","R","G","E">>
QUERY_KEY == <<"Q","U","E","R","Y">>
VARIABLES_KEY == <<"V","A","R","I","A","B","L","E","S">>

\* ^[A-z_]\w*$
IsVariableName(k) ==
    /\ At(k, 1) \in NameStartChars
    /\ \A i \in 2..Len(k) : k[i] \in WordChars

\* The schema without "additionalProperties": False at its top.
ValidIncludeAnyKey(h, nd) ==
    /\ DictHas(nd, INCLUDE_KEY)
    /\ \A i \in 1..Len(nd.keys) :
          \/ nd.keys[i] = INCLUDE_KEY /\ nd.vals[i].t = "str"
          \/ nd.keys[i] = MERGE_KEY /\ nd.vals[i].t = "bool"
          \/ nd.keys[i] = QUERY_KEY /\ nd.vals[i].t = "str"
          \/ /\ nd.keys[i] = VARIABLES_KEY
             /\ TypeOf(h, nd.vals[i]) = "dict"
             /\ \A j \in 1..Len(h[nd.vals[i].n].keys) :
                   /\ IsVariableName(h[nd.vals[i].n].keys[j])
                   /\ h[nd.vals[i].n].vals[j].t = "str"
          \/ nd.keys[i] \notin {INCLUDE_KEY, MERGE_KEY, QUERY_KEY,
                                VARIABLES_KEY}

\* jsonschema.validate(schema=INCLUDE_SCHEMA, instance=value) passes.
ValidInclude(h, nd) ==
    /\ DictHas(nd, INCLUDE_KEY)
    /\ \A i \in 1..Len(nd.keys) :
          \/ nd.keys[i] = INCLUDE_KEY /\ nd.vals[i].t = "str"
          \/ nd.keys[i] = MERGE_KEY /\ nd.vals[i].t = "bool"
          \/ nd.keys[i] = QUERY_KEY /\ nd.vals[i].t = "str"
          \/ /\ nd.keys[i] = VARIABLES_KEY
             /\ TypeOf(h, nd.vals[i]) = "dict"
             /\ LET vars == h[nd.vals[i].n]
                IN  \A j \in 1..Len(vars.keys) :
                        /\ IsVariableName(vars.keys[j])
                        /\ vars.vals[j].t = "str"

IsInclude(h, value) ==
    /\ TypeOf(h, value) = "dict"
    /\ DictHas(h[value.n], INCLUDE_KEY)
    /\ ValidInclude(h, h[value.n])

(***************************************************************************)
(* DataProcessor.load_include_file.  Scopes (variable maps) and filename   *)
(* chains are objects too: scopes[i] and chains[i] are their contents, and *)
(* object 1 of scopes is the processor's own variable_map.                 *)
(***************************************************************************)
SELF_VARIABLE_MAP == 1

\* The iterations of the directive loop in one call after which the call
\* is taken not to return.
MaxHops == 3

\* The caller's scope object itself, no copy of it.
AliasScope(scopes, id) == [objs |-> scopes, id |-> id]

\* dict(variable_map)
CopyScope(scopes, id) ==
    [objs |-> Append(scopes, scopes[id]), id |-> Len(scopes) + 1]

\* The caller's list itself, no copy of it.
AliasChain(chains, id) == [objs |-> chains, id |-> id]

\* list(parent_filenames)
CopyChain(chains, id) ==
    [objs |-> Append(chains, chains[id]), id |-> Len(chains) + 1]

\* variable_map.update(variables): the entries of a VARIABLES dict laid
\* over a scope.
Overlay(scope, vars) ==
    LET names == {vars.keys[i] : i \in 1..Len(vars.keys)}
    IN  [k \in DOMAIN scope \cup names |->
            IF k \in names THEN DictGet(vars, k) ELSE scope[k]]

\* jmespath.search(query, loaded_value) for a query that is one field
\* name: the value of that field of a dict, else None.
Search(h, query, loaded_value) ==
    IF TypeOf(h, loaded_value) = "dict" /\ DictHas(h[loaded_value.n], query.s)
    THEN DictGet(h[loaded_value.n], query.s)
    ELSE VNull

\* The dict has MERGE: true.
IsMergeByValue(h, orig_value) ==
    /\ DictHas(h[orig_value.n], MERGE_KEY)
    /\ DictGet(h[orig_value.n], MERGE_KEY) = VBool(TRUE)

\* Line 437: the MERGE key is in the dict, whatever its value.
IsMerge(h, orig_value) == DictHas(h[orig_value.n], MERGE_KEY)

\* Lines 444-445: the fragment held by include_dict under the string.
FromIncludeDict(P, h, include_filename) ==
    [err |-> "", arg |-> <<>>, heap |-> h,
     value |-> P.include_dict[include_filename.s],
     filename |-> include_filename.s, source |-> "include_dict"]

NotFetched(e, a, h) ==
    [err |-> e, arg |-> a, heap |-> h, value |-> VNull,
     filename |-> <<>>, source |-> "file"]

\* Line 449: the file of the name that was found, loaded.
FromLoadedFile(filename, file) ==
    [err |-> file.err, arg |-> file.arg, heap |-> file.heap,
     value |-> file.value, filename |-> filename, source |-> "file"]

\* Lines 447-449, with what get_filename returned.
FromFile(P, h, found) ==
    IF found.err # "" THEN NotFetched(found.err, found.arg, h)
    ELSE FromLoadedFile(found.val.s, LoadFile(P, h, found.val.s))

\* The file is looked for first, include_dict only when there is none.
FetchFileFirstOf(P, h, include_filename, fetched) ==
    IF fetched.err = "" THEN fetched
    ELSE IF include_filename.s \in DOMAIN P.include_dict
    THEN FromIncludeDict(P, h, include_filename)
    ELSE fetched

FetchFileFirst(P, h, include_filename, parent_filenames) ==
    IF ~IsStr(include_filename) THEN NotFetched("TypeError", <<>>, h)
    ELSE FetchFileFirstOf(
             P, h, include_filename,
             FromFile(P, h, GetFilename(P, include_filename.s,
                                        parent_filenames)))

\* Lines 443-449: the fragment for an include string: from include_dict
\* when the string is a key of it, else from the file found for it.  (A
\* value that cannot be a key, or cannot be a file name, is a TypeError.)
Fetch(P, h, include_filename, parent_filenames) ==
    IF ~IsStr(include_filename) THEN NotFetched("TypeError", <<>>, h)
    ELSE IF include_filename.s \in DOMAIN P.include_dict
    THEN FromIncludeDict(P, h, include_filename)
    ELSE FromFile(P, h, GetFilename(P, include_filename.s, parent_filenames))

\* Line 442 for every entry: the results put in place of the values, or
\* the first exception.
SubstitutedInPlace(h, id, res, bad) ==
    IF bad # {}
    THEN [err |-> res[CHOOSE x \in bad : \A y \in bad : x <= y].err,
          arg |-> res[CHOOSE x \in bad : \A y \in bad : x <= y].arg,
          heap |-> h]
    ELSE [err |-> "", arg |-> <<>>,
          heap |-> [h EXCEPT ![id].vals = [i \in 1..Len(res) |-> res[i].val]]]

SubstituteEach(h, id, res) ==
    SubstitutedInPlace(h, id, res, {i \in 1..Len(res) : res[i].err # ""})

\* Lines 440-442: each VARIABLES value substituted in place, in order;
\* process_variable is called without a variable_map, so with
\* self.variable_map.
SubstituteVariables(P, h, scopes, nd) ==
    IF ~DictHas(nd, VARIABLES_KEY) THEN [err |-> "", arg |-> <<>>, heap |-> h]
    ELSE SubstituteEach(
             h, DictGet(nd, VARIABLES_KEY).n,
             [i \in 1..Len(h[DictGet(nd, VARIABLES_KEY).n].vals) |->
                 ProcessVariable(P, h[DictGet(nd, VARIABLES_KEY).n].vals[i],
                                 scopes[SELF_VARIABLE_MAP])])

\* value[VARIABLES] as a dict node, empty when the key is absent.
VariablesOf(h, nd) ==
    IF DictHas(nd, VARIABLES_KEY) THEN h[DictGet(nd, VARIABLES_KEY).n]
    ELSE DictNode(<<>>, <<>>)

\* Lines 437, 450-456: the locals after one iteration that fetched got.
AfterHop(h0, orig_value, st, nd, include_filename, got) ==
    [st EXCEPT
        !.is_merge = IsMerge(h0, orig_value),
        !.heap = got.heap,
        !.chains[st.parent_filenames] = Append(@, got.filename),
        !.scopes[st.variable_map] = Overlay(@, VariablesOf(got.heap, nd)),
        !.value = IF DictHas(nd, QUERY_KEY)
                  THEN Search(got.heap, DictGet(nd, QUERY_KEY), got.value)
                  ELSE got.value,
        !.hops = Append(@, [include_filename |-> include_filename,
                            parent_filenames |-> st.chains[st.parent_filenames],
                            source |-> got.source,
                            filename |-> got.filename,
                            loaded_value |-> got.value,
                            variables |-> VariablesOf(got.heap, nd)])]

RECURSIVE IncludeLoop(_, _, _)

IncludeFetched(P, orig_value, st, nd, include_filename, got) ==
    IF got.err # ""
    THEN [st EXCEPT !.err = got.err, !.arg = got.arg, !.heap = got.heap]
    ELSE IncludeLoop(P, orig_value,
                     AfterHop(st.heap, orig_value, st, nd, include_filename,
                              got))

IncludeSubstituted(P, orig_value, st, nd, include_filename, subst) ==
    IF subst.err # ""
    THEN [st EXCEPT !.err = subst.err, !.arg = subst.arg, !.heap = subst.heap]
    ELSE IncludeFetched(P, orig_value, st, nd, include_filename,
                        Fetch(P, subst.heap, include_filename,
                              st.chains[st.parent_filenames]))

IncludeNamed(P, orig_value, st, nd, include_filename) ==
    IF include_filename.err # ""
    THEN [st EXCEPT !.err = include_filename.err,
                    !.arg = include_filename.arg]
    ELSE IncludeSubstituted(P, orig_value, st, nd, include_filename.val,
                            SubstituteVariables(P, st.heap, st.scopes, nd))

\* The condition without its first conjunct.
IsToIncludeAlways(P, h, value) == IsInclude(h, value)

\* Line 436: the condition of the loop.
IsToInclude(P, h, value) == P.is_process_include /\ IsInclude(h, value)

\* Lines 436-456: the loop, from the state st of the call's locals.
IncludeLoop(P, orig_value, st) ==
    IF ~IsToInclude(P, st.heap, st.value) THEN st
    ELSE IF Len(st.hops) >= MaxHops THEN [st EXCEPT !.err = "(no return)"]
    ELSE IncludeNamed(P, orig_value, st, st.heap[st.value.n],
                      ProcessVariable(P, DictGet(st.heap[st.value.n],
                                                 INCLUDE_KEY),
                                      st.scopes[SELF_VARIABLE_MAP]))

\* Lines 432-435: the locals before the loop.
IncludeLocals(h, value, pf, vm) ==
    [heap |-> h, scopes |-> vm.objs, chains |-> pf.objs,
     value |-> value, parent_filenames |-> pf.id,
     variable_map |-> vm.id, is_merge |-> FALSE,
     err |-> "", arg |-> <<>>, hops |-> <<>>]

\* The call: its result is the final state of its locals (value,
\* parent_filenames, variable_map, is_merge), the heaps as it leaves them,
\* and the fragments it fetched (hops).
LoadIncludeFile(P, h, scopes, chains, value, parent_filenames, variable_map) ==
    IncludeLoop(P, value,
                IncludeLocals(h, value, CopyChain(chains, parent_filenames),
                              CopyScope(scopes, variable_map)))

(***************************************************************************)
(* The state of a run of process_data.                                     *)
(***************************************************************************)
VARIABLES
    P,        \* the DataProcessor as configured, and the file system
    heap,     \* the dict and list objects
    scopes,   \* the variable map objects
    chains,   \* the parent_filenames objects
    root,     \* the local root
    stack,    \* the local stack: entries [data, parent_filenames, variable_map]
    pc,       \* "start", "loop", "iter", "validate", "done" or "failed"
    cur,      \* the locals of one pass of the while loop
    loc,      \* the locals of the last pass of the for loop
    merged,   \* history: per dict, the entries map merges put into it
    err,      \* the exception that ended the run
    out,      \* the output file: opened, written, and the tree written
    stdin,    \* the position of sys.stdin: "start" or "eof"
    schema_location,  \* the local schema_location of process_data
    call      \* the argument and result of a single call of a function

vars ==
    <<P, heap, scopes, chains, root, stack, pc, cur, loc, merged, err, out,
      stdin, schema_location, call>>

NoCur ==
    [data |-> VNull, kind |-> "", idx |-> 0, snap_keys |-> <<>>,
     snap_vals |-> <<>>, skip_keys |-> {}, parent_filenames |-> 0,
     variable_map |-> 0, g_scope |-> <<>>, hops |-> <<>>]

NoLoc ==
    [valid |-> FALSE, data |-> VNull, kind |-> "", before |-> ListNode(<<>>),
     idx |-> 0, key |-> <<>>, item0 |-> VNull, item |-> VNull,
     include_data |-> VNull, is_merge |-> FALSE, parent_filenames_x |-> 0,
     variable_map_x |-> 0, g_scope |-> <<>>, hops |-> <<>>]

\* The output file before line 378.
NoOutput == [opened |-> FALSE, written |-> FALSE, root |-> VNull]

NoCall == [op |-> "", arg |-> <<>>, result |-> <<>>]

\* An exception leaves process_data, the locals of the for loop being l.
FailWith(e, h, sc, ch, l) ==
    /\ pc' = "failed"
    /\ err' = e
    /\ heap' = h
    /\ scopes' = sc
    /\ chains' = ch
    /\ loc' = l
    /\ UNCHANGED <<P, root, stack, cur, merged, out, stdin, schema_location,
                   call>>

Fail(e, h, sc, ch) == FailWith(e, h, sc, ch, loc)

\* The scope the scoping rule gives to what a call of load_include_file
\* returned: the VARIABLES of each directive it resolved, in order, over
\* the scope of the position.
RECURSIVE ScopeAfter(_, _)
ScopeAfter(scope, hops) ==
    IF hops = <<>> THEN scope
    ELSE ScopeAfter(Overlay(scope, Head(hops).variables), Tail(hops))

\* The output file opened before the while loop.
StartLoadedOutputOpened(in_filename, file, at) ==
    IF file.err # "" THEN Fail(file.err, heap, scopes, chains)
    ELSE /\ heap' = file.heap
         /\ stdin' = at
         /\ schema_location' = LoadFileSchema(P, in_filename, at)
         /\ root' = file.value
         /\ chains' = Append(chains, <<in_filename>>)
         /\ stack' = <<[data |-> file.value,
                        parent_filenames |-> Len(chains) + 1,
                        variable_map |-> SELF_VARIABLE_MAP,
                        g_scope |-> scopes[SELF_VARIABLE_MAP]]>>
         /\ pc' = "loop"
         /\ out' = [out EXCEPT !.opened = TRUE]
         /\ UNCHANGED <<P, scopes, cur, loc, merged, err, call>>

\* Lines 312-314, sys.stdin being left at the position at by load_file.
StartLoaded(in_filename, file, at) ==
    IF file.err # "" THEN Fail(file.err, heap, scopes, chains)
    ELSE /\ heap' = file.heap
         /\ stdin' = at
         /\ schema_location' = LoadFileSchema(P, in_filename, at)
         /\ root' = file.value
         /\ chains' = Append(chains, <<in_filename>>)
         /\ stack' = <<[data |-> file.value,
                        parent_filenames |-> Len(chains) + 1,
                        variable_map |-> SELF_VARIABLE_MAP,
                        g_scope |-> scopes[SELF_VARIABLE_MAP]]>>
         /\ pc' = "loop"
         /\ UNCHANGED <<P, scopes, cur, loc, merged, err, out, call>>

StartFound(found) ==
    IF found.err # "" THEN Fail(found.err, heap, scopes, chains)
    ELSE IF found.val.s = STDIN_NAME
    THEN StartLoaded(found.val.s, LoadFileStdin(P, heap, stdin), "eof")
    ELSE StartLoaded(found.val.s, LoadFile(P, heap, found.val.s), stdin)

\* Lines 311-314
Start ==
    /\ pc = "start"
    /\ StartFound(GetFilename(P, P.in_filename, <<>>))

\* The first position after pos of the snapshot whose key is not skipped
\* (past the end when there is none).
FirstOf(ps, none) ==
    IF ps = {} THEN none ELSE CHOOSE i \in ps : \A j \in ps : i <= j

NextPos(keys, skip_keys, pos) ==
    FirstOf({i \in (pos + 1)..Len(keys) : keys[i] \notin skip_keys},
            Len(keys) + 1)

\* Lines 324-332: the locals of the while loop for the container data, and
\* the for loop entered unless there is nothing to iterate.
Enter(top, h, sc, ch, data, rt, kind, pf, vm, g_scope, hops) ==
    /\ stack' = SubSeq(stack, 1, Len(stack) - 1)
    /\ heap' = h
    /\ scopes' = sc
    /\ chains' = ch
    /\ root' = rt
    /\ cur' = [data |-> data,
               kind |-> kind,
               idx |-> IF kind = "dict" THEN 1 ELSE 0,
               snap_keys |-> IF kind = "dict" THEN h[data.n].keys ELSE <<>>,
               snap_vals |-> IF kind = "dict" THEN h[data.n].vals ELSE <<>>,
               skip_keys |-> {},
               parent_filenames |-> pf,
               variable_map |-> vm,
               g_scope |-> g_scope,
               hops |-> hops]
    /\ pc' = IF kind \in {"list", "dict"} /\ h[data.n].vals # <<>>
             THEN "iter" ELSE "loop"
    /\ UNCHANGED <<P, loc, merged, err, out, stdin, schema_location, call>>

\* Lines 318-323: the root, which may itself be a directive.
PopRoot(top, r) ==
    IF r.err # "" THEN Fail(r.err, r.heap, r.scopes, r.chains)
    ELSE Enter(top, r.heap, r.scopes, r.chains, r.value, r.value,
               TypeOf(r.heap, r.value), r.parent_filenames, r.variable_map,
               ScopeAfter(top.g_scope, r.hops), r.hops)

\* Line 317, with what process_variable returned.  "data is root" holds for
\* the root object itself, and for a root string that no substitution
\* changed.
PopSubstituted(top, subst) ==
    IF subst.err # "" THEN Fail(subst.err, heap, scopes, chains)
    ELSE IF subst.val = root
    THEN PopRoot(top, LoadIncludeFile(P, heap, scopes, chains, subst.val,
                                      top.parent_filenames, top.variable_map))
    ELSE Enter(top, heap, scopes, chains, subst.val, root,
               TypeOf(heap, subst.val), top.parent_filenames,
               top.variable_map, top.g_scope, <<>>)

PopEntry(top) ==
    PopSubstituted(top, ProcessVariable(P, top.data, scopes[top.variable_map]))

\* Lines 315-332: one entry is popped; a list or dict is set up for the
\* for loop, anything else is done with.
Pop ==
    /\ pc = "loop"
    /\ stack # <<>>
    /\ PopEntry(stack[Len(stack)])

\* Lines 347-352: del data[key], then the included items inserted at key,
\* key + 1, ... (key counts from 0).
SpliceList(vals, key, include_vals) ==
    SubSeq(vals, 1, key) \o include_vals \o SubSeq(vals, key + 2, Len(vals))

\* Lines 361-362: data[include_key] = include_item for each included entry.
RECURSIVE MergeDict(_, _, _)
MergeDict(nd, include_keys, include_vals) ==
    IF include_keys = <<>> THEN nd
    ELSE MergeDict(DictSet(nd, Head(include_keys), Head(include_vals)),
                   Tail(include_keys), Tail(include_vals))

\* No key added to skip_keys.
SkipKeysDropped(skip_keys, include_keys) == skip_keys

\* Lines 363, 334-335: the keys the rest of the for loop passes over.
SkipKeys(skip_keys, include_keys) ==
    skip_keys \cup {include_keys[i] : i \in 1..Len(include_keys)}

\* No comparison of the types.
MergeTypeMismatchNever(is_merge, type_of_data, type_of_include) == FALSE

\* Line 340
MergeTypeMismatch(is_merge, type_of_data, type_of_include) ==
    is_merge /\ type_of_data # type_of_include

\* Lines 364-372: the included composites pushed, in order.
RECURSIVE PushComposites(_, _, _)
PushComposites(stk, vals, entry) ==
    IF vals = <<>> THEN stk
    ELSE PushComposites(
             IF IsComposite(Head(vals))
             THEN Append(stk, [entry EXCEPT !.data = Head(vals)])
             ELSE stk,
             Tail(vals), entry)

\* The entry the for loop is at: the iterator of a list goes by index over
\* the list as it is now, that of a dict over the snapshot of line 330.
IterKey == IF cur.kind = "list" THEN <<>> ELSE cur.snap_keys[cur.idx]

IterItem ==
    IF cur.kind = "list" THEN heap[cur.data.n].vals[cur.idx + 1]
    ELSE cur.snap_vals[cur.idx]

\* Line 336: data[key] = item
Assign(nd, idx, key, item) ==
    IF nd.kind = "list" THEN [nd EXCEPT !.vals[idx + 1] = item]
    ELSE DictSet(nd, key, item)

\* The entries of include_data, which the splices of lines 349 and 361
\* iterate.
IncludeNode(r) ==
    IF IsRef(r.value) THEN r.heap[r.value.n] ELSE ListNode(<<>>)

\* Lines 342-374: the container after the pass.  include_data != item is
\* so when the loop of load_include_file ran, its result not being a
\* directive.
Stored(nd, key, r) ==
    CASE r.is_merge /\ nd.kind = "list" ->
            [nd EXCEPT !.vals = SpliceList(@, cur.idx, IncludeNode(r).vals)]
      [] r.is_merge /\ nd.kind = "dict" ->
            MergeDict(DictDel(nd, key), IncludeNode(r).keys,
                      IncludeNode(r).vals)
      [] ~r.is_merge /\ r.hops # <<>> -> Assign(nd, cur.idx, key, r.value)
      [] OTHER -> nd

\* Lines 348-352, 360, 374: the local item after the pass.
ItemAfter(kind, item, r) ==
    CASE r.is_merge /\ kind = "list" ->
            IF IncludeNode(r).vals = <<>> THEN VNull
            ELSE IncludeNode(r).vals[1]
      [] r.is_merge /\ kind = "dict" -> VNull
      [] OTHER -> r.value

\* The locals of the pass as line 339 leaves them.
Locals(key, item0, item, before, r) ==
    [valid |-> TRUE, data |-> cur.data, kind |-> cur.kind,
     before |-> before, idx |-> cur.idx, key |-> key, item0 |-> item0,
     item |-> item, include_data |-> r.value, is_merge |-> r.is_merge,
     parent_filenames_x |-> r.parent_filenames,
     variable_map_x |-> r.variable_map, g_scope |-> cur.g_scope,
     hops |-> r.hops]

\* The stack entry of lines 368-372 and 376-377, less its data.
PushedEntry(r) ==
    [data |-> VNull,
     parent_filenames |-> r.parent_filenames,
     variable_map |-> r.variable_map,
     g_scope |-> ScopeAfter(cur.g_scope, r.hops)]

\* Lines 364-372 and 375-377
StackAfter(stk, key, nd2, item, r) ==
    IF IsComposite(item)
    THEN Append(stk, [PushedEntry(r) EXCEPT
                         !.data = IF nd2.kind = "list"
                                  THEN nd2.vals[cur.idx + 1]
                                  ELSE DictGet(nd2, key)])
    ELSE stk

\* The entries a map merge put into the dict, over those of earlier ones.
MergedAfter(m, id, inc) ==
    [i \in DOMAIN m \cup {id} |->
        IF i # id THEN m[i]
        ELSE [k \in (IF id \in DOMAIN m THEN DOMAIN m[id] ELSE {})
                    \cup {inc.keys[j] : j \in 1..Len(inc.keys)} |->
                 IF DictHas(inc, k) THEN DictGet(inc, k) ELSE m[id][k]]]

\* The iterator advanced, and the for loop left when it is exhausted.
Advance(nd2, skip2, idx2) ==
    /\ cur' = [cur EXCEPT !.idx = idx2, !.skip_keys = skip2]
    /\ pc' = IF (IF cur.kind = "list" THEN idx2 < Len(nd2.vals)
                 ELSE idx2 <= Len(cur.snap_keys))
             THEN "iter" ELSE "loop"

VisitStored(key, r, nd2, item, skip2) ==
    /\ heap' = [r.heap EXCEPT ![cur.data.n] = nd2]
    /\ scopes' = r.scopes
    /\ chains' = r.chains
    /\ stack' = StackAfter(IF r.is_merge /\ cur.kind = "dict"
                           THEN PushComposites(stack, IncludeNode(r).vals,
                                               PushedEntry(r))
                           ELSE stack,
                           key, nd2, item, r)
    /\ merged' = IF r.is_merge /\ cur.kind = "dict"
                 THEN MergedAfter(merged, cur.data.n, IncludeNode(r))
                 ELSE merged
    /\ Advance(nd2, skip2,
               IF cur.kind = "list" THEN cur.idx + 1
               ELSE NextPos(cur.snap_keys, skip2, cur.idx))
    /\ UNCHANGED <<P, root, err, out, stdin, schema_location, call>>

\* Lines 337-377, with what load_include_file returned.
VisitIncluded(key, item0, item, r) ==
    IF r.err # "" THEN Fail(r.err, r.heap, r.scopes, r.chains)
    ELSE IF MergeTypeMismatch(r.is_merge, cur.kind, TypeOf(r.heap, r.value))
    THEN FailWith("TypeError", r.heap, r.scopes, r.chains,
                  Locals(key, item0, item, r.heap[cur.data.n], r))
    ELSE /\ loc' = Locals(key, item0, item, r.heap[cur.data.n], r)
         /\ VisitStored(key, r, Stored(r.heap[cur.data.n], key, r),
                        ItemAfter(cur.kind, item, r),
                        IF r.is_merge /\ cur.kind = "dict"
                        THEN SkipKeys(cur.skip_keys, IncludeNode(r).keys)
                        ELSE cur.skip_keys)

\* Line 336, with what process_variable returned.
VisitSubstituted(key, item0, subst) ==
    IF subst.err # "" THEN Fail(subst.err, heap, scopes, chains)
    ELSE VisitIncluded(
             key, item0, subst.val,
             LoadIncludeFile(
                 P, [heap EXCEPT ![cur.data.n] = Assign(@, cur.idx, key, subst.val)],
                 scopes, chains, subst.val, cur.parent_filenames,
                 cur.variable_map))

\* Lines 333-377: one pass of the for loop, on the entry the iterator
\* gives next; the iterator is then advanced.
Visit ==
    /\ pc = "iter"
    /\ VisitSubstituted(IterKey, IterItem,
                        ProcessVariable(P, IterItem,
                                        scopes[cur.variable_map]))

\* The tree validated with the output file not yet opened.
DumpAfterValidation ==
    /\ pc = "loop"
    /\ stack = <<>>
    /\ pc' = "validate"
    /\ UNCHANGED <<P, heap, scopes, chains, root, stack, cur, loc, merged,
                   err, out, stdin, schema_location, call>>

\* Lines 378-388: the output file is opened and the resolved tree written.
Dump ==
    /\ pc = "loop"
    /\ stack = <<>>
    /\ out' = [opened |-> TRUE, written |-> TRUE, root |-> root]
    /\ pc' = "validate"
    /\ UNCHANGED <<P, heap, scopes, chains, root, stack, cur, loc, merged,
                   err, stdin, schema_location, call>>

\* Line 389, with what validate_data raised.
Validated(e) ==
    /\ pc' = IF e = "" THEN "done" ELSE "failed"
    /\ err' = e
    /\ UNCHANGED <<P, heap, scopes, chains, root, stack, cur, loc, merged,
                   out, stdin, schema_location, call>>

\* Line 389: the tree is validated against the schema of the root source.
Validate ==
    /\ pc = "validate"
    /\ Validated(ValidateData(P, heap, root, schema_location))

(***************************************************************************)
(* The documents and configurations the runs start from.                   *)
(***************************************************************************)
\* The number of entries of the root document is at most MaxEntries.
MaxEntries == 2

Scalar(v) == [root |-> v, nodes |-> <<>>]

\* The values and objects of documents laid one after the other, the
\* first object getting number off + 1.
RECURSIVE Pack(_, _)
Pack(docs, off) ==
    IF docs = <<>> THEN [vals |-> <<>>, nodes |-> <<>>]
    ELSE LET d == Head(docs)
             rest == Pack(Tail(docs), off + Len(d.nodes))
         IN  [vals |-> <<Shift(d.root, off)>> \o rest.vals,
              nodes |-> ShiftNodes(d.nodes, off) \o rest.nodes]

ListDoc(docs) ==
    [root |-> VRef(1),
     nodes |-> <<ListNode(Pack(docs, 1).vals)>> \o Pack(docs, 1).nodes]

DictDoc(keys, docs) ==
    [root |-> VRef(1),
     nodes |-> <<DictNode(keys, Pack(docs, 1).vals)>> \o Pack(docs, 1).nodes]

\* {INCLUDE: name, MERGE: ..., VARIABLES: {N: value}} with the optional
\* keys given by merge ("none", "true", "false") and value (<<>>: none).
Directive(name, merge, value) ==
    DictDoc(
        <<INCLUDE_KEY>>
            \o (IF merge = "none" THEN <<>> ELSE <<MERGE_KEY>>)
            \o (IF value = <<>> THEN <<>> ELSE <<VARIABLES_KEY>>),
        <<Scalar(VStr(name))>>
            \o (IF merge = "none" THEN <<>>
                ELSE <<Scalar(VBool(merge = "true"))>>)
            \o (IF value = <<>> THEN <<>>
                ELSE <<DictDoc(<<<<"N">>>>, <<Scalar(VStr(value))>>)>>))

TOKEN_N == VStr(<<"$", "N">>)

\* The files: /r/t is the root document (given per run); the fragments
\* are in its directory.
\*   s: "$N"                      e: []
\*   l: ["$N", {INCLUDE: s}]      d: [{INCLUDE: s}, "q"]
\*   m: {b: "$N", k: {INCLUDE: s}}
\*   k: "file"                    (include_dict may also hold k)
Fragments ==
    (<<"/","r","/","s">> :> Scalar(TOKEN_N))
    @@ (<<"/","r","/","e">> :> ListDoc(<<>>))
    @@ (<<"/","r","/","l">> :>
            ListDoc(<<Scalar(TOKEN_N), Directive(<<"s">>, "none", <<>>)>>))
    @@ (<<"/","r","/","d">> :>
            ListDoc(<<Directive(<<"s">>, "none", <<>>),
                      Scalar(VStr(<<"q">>))>>))
    @@ (<<"/","r","/","m">> :>
            DictDoc(<<<<"b">>, <<"k">>>>,
                    <<Scalar(TOKEN_N), Directive(<<"s">>, "none", <<>>)>>))
    @@ (<<"/","r","/","k">> :> Scalar(VStr(<<"f","i","l","e">>)))

ROOT_FILE == <<"/","r","/","t">>

\* The entries a root document is made of, each a document of its own too.
Items ==
    {Scalar(TOKEN_N),
     Directive(<<"s">>, "none", <<"v">>),
     Directive(<<"e">>, "true", <<>>),
     Directive(<<"l">>, "true", <<"v">>),
     Directive(<<"l">>, "false", <<>>),
     Directive(<<"d">>, "true", <<>>),
     Directive(<<"m">>, "true", <<"v">>),
     Directive(<<"m">>, "none", <<>>),
     Directive(<<"s">>, "true", <<>>),
     Directive(<<"k">>, "none", <<>>),
     Directive(<<"x">>, "none", <<>>),
     Directive(<<"$", "N">>, "none", <<>>),
     Scalar(VStr(<<"$", "U">>)),
     Scalar(VStr(<<"$", "{", "N", ".", "i", "n", "t", "}">>)),
     Scalar(VStr(<<" ", "$", "{", "N", ".", "i", "n", "t", "}">>))}

ROOT_KEYS == <<<<"a">>, <<"b">>, <<"c">>, <<"d">>>>

RootDocs ==
    Items \cup UNION {
        {ListDoc(items) : items \in [1..n -> Items]}
        \cup {DictDoc(SubSeq(ROOT_KEYS, 1, n), items) :
                 items \in [1..n -> Items]}
        : n \in 1..MaxEntries}

\* The schema of the model: the data is to be a mapping.
SCHEMA_FILE == <<"/","r","/","h">>

\* The first line of a root source: the start of a document, or a schema
\* association line of either form.
NO_SCHEMA_LINE == <<"-","-","-","\n">>
SHEBANG_LINE == SCHEMA_PREFIXES[1] \o SCHEMA_FILE \o <<"\n">>
SERVER_LINE == SCHEMA_PREFIXES[2] \o <<" ">> \o SCHEMA_FILE \o <<"\n">>

\* include_dict: empty, or holding the string "dict" under k.
IncludeDicts ==
    {<<>>, (<<"k">> :> VStr(<<"d","i","c","t">>))}

Processor(doc, include_dict) ==
    [is_process_include |-> TRUE,
     is_process_variable |-> TRUE,
     include_paths |-> <<>>,
     include_dict |-> include_dict,
     unbound_placeholder |-> VNull,
     time_formats |-> (<<>> :> <<"%","F","T","%","T","%",":","z">>),
     time_now |-> Instant(2024, 2, 29, 23, 59, 30, TRUE, 3600),
     time_ref |-> Instant(2022, 2, 20, 22, 2, 0, TRUE, 0),
     variable_map |-> (<<"N">> :> VStr(<<"g">>)),
     files |-> Fragments @@ (ROOT_FILE :> doc),
     source |-> [first_line |-> NO_SCHEMA_LINE, doc |-> doc],
     schemas |-> (SCHEMA_FILE :> [type |-> "object"]),
     schema_prefix |-> <<>>,
     cwd |-> <<"/","c">>,
     home |-> <<"/","h">>,
     in_filename |-> ROOT_FILE]

\* The same document piped in on standard input, no root file existing.
OnStdin(Q) ==
    [Q EXCEPT !.in_filename = STDIN_NAME, !.files = Fragments]

\* The runs: the default one, and those that differ from it in one setting.
Processors(doc) ==
    {Processor(doc, include_dict) : include_dict \in IncludeDicts}
    \cup {[Processor(doc, <<>>) EXCEPT !.is_process_include = FALSE]}
    \cup {[Processor(doc, <<>>) EXCEPT !.source.first_line = line] :
             line \in {SHEBANG_LINE, SERVER_LINE}}
    \cup {OnStdin([Processor(doc, <<>>) EXCEPT
                       !.source.first_line = SERVER_LINE])}

Init ==
    /\ \E doc \in RootDocs : P \in Processors(doc)
    /\ heap = <<>>
    /\ scopes = <<P.variable_map>>
    /\ chains = <<>>
    /\ root = VNull
    /\ stack = <<>>
    /\ pc = "start"
    /\ cur = NoCur
    /\ loc = NoLoc
    /\ merged = <<>>
    /\ err = ""
    /\ out = NoOutput
    /\ stdin = "start"
    /\ schema_location = VNull
    /\ call = NoCall

Next == Start \/ Pop \/ Visit \/ Dump \/ Validate

Spec == Init /\ [][Next]_vars

(***************************************************************************)
(* Single calls of process_variable: the string is made of pieces, under   *)
(* each unbound policy and scope.                                          *)
(***************************************************************************)
\* The number of pieces of an input string is at most MaxPieces.
MaxPieces == 3

VarPieces ==
    {<<" ">>, <<"\\">>, <<"$">>,
     <<"$", "X">>,
     <<"$", "{", "X", "}">>,
     <<"$", "{", "U", "}">>,
     <<"$", "{", "X", ".", "i", "n", "t", "}">>,
     <<"$", "{">> \o YP_TIME_REF \o <<"}">>,
     <<"$", "{">> \o YP_TIME \o <<"_", "X", "}">>}

RECURSIVE Concat(_)
Concat(pieces) ==
    IF pieces = <<>> THEN <<>> ELSE Head(pieces) \o Concat(Tail(pieces))

\* unbound_placeholder: None, UNBOUND_ORIGINAL or a string.
Policies == {VNull, VStr(UNBOUND_ORIGINAL), VStr(<<"p", "h">>)}

VarScopes ==
    {(<<"X">> :> VStr(<<"7">>)),
     (<<"X">> :> VStr(<<"7">>)) @@ (YP_TIME_REF :> VStr(<<"t">>))}

VarProcessor(policy, scope) ==
    [Processor(Scalar(VNull), <<>>) EXCEPT
        !.unbound_placeholder = policy, !.variable_map = scope]

Idle ==
    /\ heap = <<>>
    /\ scopes = <<P.variable_map>>
    /\ chains = <<>>
    /\ root = VNull
    /\ stack = <<>>
    /\ cur = NoCur
    /\ loc = NoLoc
    /\ merged = <<>>
    /\ err = ""
    /\ out = NoOutput
    /\ stdin = "start"
    /\ schema_location = VNull

InitVar ==
    /\ \E policy \in Policies, scope \in VarScopes :
           P = VarProcessor(policy, scope)
    /\ \E n \in 0..MaxPieces : \E pieces \in [1..n -> VarPieces] :
           call = [op |-> "process_variable",
                   arg |-> [pieces |-> pieces, item |-> Concat(pieces)],
                   result |-> <<>>]
    /\ pc = "call"
    /\ Idle

\* process_variable(item) is called and returns or raises.
CallProcessVariable ==
    /\ pc = "call"
    /\ call.op = "process_variable"
    /\ call' = [call EXCEPT
                   !.result = ProcessVariable(P, VStr(call.arg.item),
                                              P.variable_map)]
    /\ pc' = "returned"
    /\ UNCHANGED <<P, heap, scopes, chains, root, stack, cur, loc, merged,
                   err, out, stdin, schema_location>>

NextVar == CallProcessVariable

SpecVar == InitVar /\ [][NextVar]_vars

(***************************************************************************)
(* Single calls of process_variable on a string that is one token with a   *)
(* cast, $V.cast or ${V.cast}, for each value V may be bound to.           *)
(***************************************************************************)
\* A value made of digits has at most MaxDigits of them.
MaxDigits == 2

UpperChar(c) ==
    IF c \in Lower THEN UpperSeq[CHOOSE i \in 1..26 : LowerSeq[i] = c] ELSE c

\* The word in every mix of upper and lower case.
CaseVariants(w) ==
    {[i \in 1..Len(w) |-> IF m[i] THEN UpperChar(w[i]) ELSE w[i]] :
        m \in [1..Len(w) -> BOOLEAN]}

CastNames == {CAST_INT, CAST_FLOAT, CAST_BOOL}

\* The token for the name V: ${V.cast} with the brace, $V.cast without.
CastToken(cast, brace) ==
    IF brace THEN <<"$", "{", "V">> \o cast \o <<"}">>
    ELSE <<"$", "V">> \o cast

\* The values of V: the words of the bool cast and some others in every
\* case, every run of digits, the empty string, a word after a blank, and
\* the text of the token itself.
CastValues(cast, brace) ==
    UNION {CaseVariants(w) :
              w \in {<<"t","r","u","e">>, <<"y","e","s">>,
                     <<"f","a","l","s","e">>, <<"n","o">>, <<"o","n">>,
                     <<"t">>}}
    \cup UNION {[1..n -> Digit] : n \in 0..MaxDigits}
    \cup {<<" ", "n", "o">>, <<"-", "1">>, <<"1", ".", "5">>,
          CastToken(cast, brace)}

InitCast ==
    /\ \E cast \in CastNames, brace \in BOOLEAN :
           \E value \in CastValues(cast, brace) :
               /\ P = VarProcessor(VNull, (<<"V">> :> VStr(value)))
               /\ call = [op |-> "process_variable",
                          arg |-> [pieces |-> <<CastToken(cast, brace)>>,
                                   item |-> CastToken(cast, brace),
                                   cast |-> cast,
                                   value |-> value],
                          result |-> <<>>]
    /\ pc = "call"
    /\ Idle

SpecCast == InitCast /\ [][NextVar]_vars

(***************************************************************************)
(* Single calls of _process_time_variable: the name is a prefix followed   *)
(* by pieces, each a modifier with its delta, a format, or another suffix. *)
(***************************************************************************)
\* The number of pieces after the prefix of a name is at most MaxModifiers.
MaxModifiers == 2

\* The pieces, each with what it stands for: for a modifier with a delta
\* of the grammar, the arguments of its relativedelta; for a format, its
\* key.
TimePieces ==
    {[text |-> <<"_", "A", "T", "_", "1", "D", "T", "0", "H", "0", "M", "0", "S">>,
      kind |-> "delta", delta_args |-> ("day" :> 1) @@ ("hour" :> 0) @@ ("minute" :> 0) @@ ("second" :> 0),
      key |-> <<>>],
     [text |-> <<"_", "A", "T", "_", "3", "1", "D">>,
      kind |-> "delta", delta_args |-> ("day" :> 31),
      key |-> <<>>],
     [text |-> <<"_", "M", "I", "N", "U", "S", "_", "T", "1", "2", "H">>,
      kind |-> "delta", delta_args |-> ("hours" :> -12),
      key |-> <<>>],
     [text |-> <<"_", "P", "L", "U", "S", "_", "1", "0", "D">>,
      kind |-> "delta", delta_args |-> ("days" :> 10),
      key |-> <<>>],
     [text |-> <<"_", "P", "L", "U", "S", "_", "1", "M">>,
      kind |-> "delta", delta_args |-> ("months" :> 1),
      key |-> <<>>],
     [text |-> <<"_", "M", "I", "N", "U", "S", "_", "1", "Y", "2", "M">>,
      kind |-> "delta", delta_args |-> ("years" :> -1) @@ ("months" :> -2),
      key |-> <<>>],
     [text |-> <<"_", "F", "O", "R", "M", "A", "T", "_", "A">>,
      kind |-> "format", delta_args |-> <<>>,
      key |-> <<"A">>],
     [text |-> <<"_", "F", "O", "R", "M", "A", "T", "_", "Q">>,
      kind |-> "format", delta_args |-> <<>>,
      key |-> <<"Q">>],
     [text |-> <<"_", "P", "L", "U", "S", "_", "X", "Y", "Z">>,
      kind |-> "junk", delta_args |-> <<>>,
      key |-> <<>>],
     [text |-> <<"_", "A", "T", "_", "1", "X">>,
      kind |-> "junk", delta_args |-> <<>>,
      key |-> <<>>],
     [text |-> <<"_", "J", "U", "N", "K">>,
      kind |-> "junk", delta_args |-> <<>>,
      key |-> <<>>]}

\* The prefixes: the two tags, a tag that is neither, and a tag with more
\* letters after it.
TimePrefixes ==
    {YP_TIME_REF, YP_TIME_NOW, YP_TIME \o <<"_", "X">>, YP_TIME,
     YP_TIME_REF \o <<"X">>}

FORMAT_A == <<"%", "Y", "%", "m", "%", "d", "T", "%", "H", "%", "M", "%", "S", "%", "z">>

\* time_ref: the instant of the tests, or the last second of a leap day
\* east of Greenwich.
TimeRefs ==
    {Instant(2022, 2, 20, 22, 2, 0, TRUE, 0),
     Instant(2024, 2, 29, 23, 59, 59, TRUE, 19800)}

TimeProcessor(time_ref) ==
    [Processor(Scalar(VNull), <<>>) EXCEPT
        !.time_ref = time_ref,
        !.time_formats = @ @@ (<<"A">> :> FORMAT_A)]

RECURSIVE ConcatTexts(_)
ConcatTexts(pieces) ==
    IF pieces = <<>> THEN <<>>
    ELSE Head(pieces).text \o ConcatTexts(Tail(pieces))

InitTime ==
    /\ \E time_ref \in TimeRefs : P = TimeProcessor(time_ref)
    /\ \E prefix \in TimePrefixes, n \in 0..MaxModifiers :
           \E pieces \in [1..n -> TimePieces] :
               call = [op |-> "_process_time_variable",
                       arg |-> [prefix |-> prefix, pieces |-> pieces,
                                name |-> prefix \o ConcatTexts(pieces)],
                       result |-> <<>>]
    /\ pc = "call"
    /\ Idle

\* _process_time_variable(name) is called and returns or raises.
CallProcessTimeVariable ==
    /\ pc = "call"
    /\ call.op = "_process_time_variable"
    /\ call' = [call EXCEPT !.result = ProcessTimeVariable(P, call.arg.name)]
    /\ pc' = "returned"
    /\ UNCHANGED <<P, heap, scopes, chains, root, stack, cur, loc, merged,
                   err, out, stdin, schema_location>>

NextTime == CallProcessTimeVariable

SpecTime == InitTime /\ [][NextTime]_vars

(***************************************************************************)
(* Single calls of strftime_with_colon_z: an instant with a UTC offset (or *)
(* naive) and a format that is one of the four offset codes.               *)
(***************************************************************************)
\* The hours of a UTC offset are at most MaxOffsetHours.
MaxOffsetHours == 14

\* The offsets, in seconds: each sign, the hours, a quarter of an hour or
\* none, and half a minute or none.
Offsets ==
    {sign * (h * 3600 + m * 60 + sec) :
        sign \in {-1, 1}, h \in 0..MaxOffsetHours, m \in {0, 15, 30, 45},
        sec \in {0, 30}}

OffsetCodes == {CODE_Z, CODE_COLON_Z, CODE_COLON2_Z, CODE_COLON3_Z}

InitZone ==
    /\ P = Processor(Scalar(VNull), <<>>)
    /\ \E aware \in BOOLEAN, utcoffset \in Offsets, code \in OffsetCodes :
           /\ aware \/ utcoffset = 0
           /\ call = [op |-> "strftime_with_colon_z",
                      arg |-> [dto |-> Instant(2022, 2, 20, 22, 2, 0, aware,
                                               utcoffset),
                               time_format |-> code],
                      result |-> <<>>]
    /\ pc = "call"
    /\ Idle

\* strftime_with_colon_z(dto, time_format) is called and returns.
CallStrftimeWithColonZ ==
    /\ pc = "call"
    /\ call.op = "strftime_with_colon_z"
    /\ call' = [call EXCEPT
                   !.result = StrftimeWithColonZ(call.arg.dto,
                                                 call.arg.time_format)]
    /\ pc' = "returned"
    /\ UNCHANGED <<P, heap, scopes, chains, root, stack, cur, loc, merged,
                   err, out, stdin, schema_location>>

NextZone == CallStrftimeWithColonZ

SpecZone == InitZone /\ [][NextZone]_vars

(***************************************************************************)
(* Single calls of get_filename: a name, a chain of parent file names, the *)
(* files that exist and the include paths.                                 *)
(***************************************************************************)
\* The number of parent file names of a call is at most MaxChain.
MaxChain == 2

\* Parent file names: files in two directories, a key of include_dict
\* (which has no directory), and standard input.
ParentNames ==
    {<<"/", "r", "/", "t">>, <<"/", "a", "/", "u">>, <<"k">>, STDIN_NAME}

FileNames ==
    {<<"f">>, <<"/", "r", "/", "f">>, <<"~", "/", "f">>, STDIN_NAME}

\* The places where a file f may exist.
Places ==
    {<<"/", "r", "/", "f">>, <<"/", "a", "/", "f">>, <<"/", "c", "/", "f">>,
     <<"/", "i", "/", "f">>, <<"/", "j", "/", "f">>}

IncludePaths ==
    {<<>>, <<<<"/", "i">>>>, <<<<"/", "i">>, <<"/", "j">>>>,
     <<<<"/", "j">>, <<"/", "i">>>>}

FileProcessor(existing, include_paths) ==
    [Processor(Scalar(VNull), <<>>) EXCEPT
        !.files = [f \in existing |-> Scalar(VNull)],
        !.include_paths = include_paths]

InitFile ==
    /\ \E existing \in SUBSET Places, include_paths \in IncludePaths :
           P = FileProcessor(existing, include_paths)
    /\ \E filename \in FileNames, n \in 0..MaxChain :
           \E parent_filenames \in [1..n -> ParentNames] :
               call = [op |-> "get_filename",
                       arg |-> [filename |-> filename,
                                parent_filenames |-> parent_filenames],
                       result |-> <<>>]
    /\ pc = "call"
    /\ Idle

\* get_filename(filename, parent_filenames) is called and returns or raises.
CallGetFilename ==
    /\ pc = "call"
    /\ call.op = "get_filename"
    /\ call' = [call EXCEPT
                   !.result = GetFilename(P, call.arg.filename,
                                          call.arg.parent_filenames)]
    /\ pc' = "returned"
    /\ UNCHANGED <<P, heap, scopes, chains, root, stack, cur, loc, merged,
                   err, out, stdin, schema_location>>

NextFile == CallGetFilename

SpecFile == InitFile /\ [][NextFile]_vars

(***************************************************************************)
(* Runs of process_data on a map that has, or has not, the shape of a      *)
(* directive: each key of INCLUDE_SCHEMA absent, well typed or ill typed,  *)
(* with or without one more key; the map is the root, the one entry of a   *)
(* root list, or the one value of a root dict.                             *)
(***************************************************************************)
\* The entry for a key of a map: none, or the key with its value.
Entry(key, kind, docs) ==
    IF kind = "none" THEN [keys |-> <<>>, docs |-> <<>>]
    ELSE [keys |-> <<key>>, docs |-> <<docs[kind]>>]

IncludeValues ==
    [str |-> Scalar(VStr(<<"m">>)),
     int |-> Scalar(VInt(1)),
     map |-> Directive(<<"s">>, "none", <<>>)]

MergeValues == [bool |-> Scalar(VBool(TRUE)), str |-> Scalar(TOKEN_N)]

QueryValues == [str |-> Scalar(VStr(<<"b">>)), int |-> Scalar(VInt(1))]

VariablesValues ==
    [map |-> DictDoc(<<<<"N">>>>, <<Scalar(VStr(<<"v">>))>>),
     ints |-> DictDoc(<<<<"N">>>>, <<Scalar(VInt(1))>>),
     names |-> DictDoc(<<<<"1">>>>, <<Scalar(VStr(<<"v">>))>>),
     str |-> Scalar(TOKEN_N)]

OtherValues == [key |-> Scalar(TOKEN_N)]

OTHER_KEY == <<"x">>

ShapeDoc(inc, mrg, qry, vrs, oth) ==
    DictDoc(Entry(INCLUDE_KEY, inc, IncludeValues).keys
                \o Entry(MERGE_KEY, mrg, MergeValues).keys
                \o Entry(QUERY_KEY, qry, QueryValues).keys
                \o Entry(VARIABLES_KEY, vrs, VariablesValues).keys
                \o Entry(OTHER_KEY, oth, OtherValues).keys,
            Entry(INCLUDE_KEY, inc, IncludeValues).docs
                \o Entry(MERGE_KEY, mrg, MergeValues).docs
                \o Entry(QUERY_KEY, qry, QueryValues).docs
                \o Entry(VARIABLES_KEY, vrs, VariablesValues).docs
                \o Entry(OTHER_KEY, oth, OtherValues).docs)

ShapeDocs ==
    {ShapeDoc(inc, mrg, qry, vrs, oth) :
        inc \in {"none", "str", "int", "map"},
        mrg \in {"none", "bool", "str"},
        qry \in {"none", "str", "int"},
        vrs \in {"none", "map", "ints", "names", "str"},
        oth \in {"none", "key"}}

ShapeRootDocs ==
    ShapeDocs
    \cup {ListDoc(<<doc>>) : doc \in ShapeDocs}
    \cup {DictDoc(<<<<"a">>>>, <<doc>>) : doc \in ShapeDocs}

InitShape ==
    /\ \E doc \in ShapeRootDocs : P = Processor(doc, <<>>)
    /\ heap = <<>>
    /\ scopes = <<P.variable_map>>
    /\ chains = <<>>
    /\ root = VNull
    /\ stack = <<>>
    /\ pc = "start"
    /\ cur = NoCur
    /\ loc = NoLoc
    /\ merged = <<>>
    /\ err = ""
    /\ out = NoOutput
    /\ stdin = "start"
    /\ schema_location = VNull
    /\ call = NoCall

SpecShape == InitShape /\ [][Next]_vars

(***************************************************************************)
(* Two runs of process_data, the second on the output of the first, on     *)
(* documents most of which hold neither a directive nor a token.           *)
(***************************************************************************)
OUT_FILE == <<"/","r","/","o">>

PlainItems ==
    {Scalar(VStr(<<"q">>)),
     Scalar(VStr(<<"$">>)),
     Scalar(VStr(<<"\\", "\\">>)),
     Scalar(VInt(1)),
     ListDoc(<<Scalar(VStr(<<"q">>))>>),
     DictDoc(<<<<"k">>>>, <<Scalar(VStr(<<"$", "{">>))>>),
     Scalar(TOKEN_N),
     Scalar(VStr(<<"\\", "$", "N">>)),
     Directive(<<"s">>, "none", <<>>)}

PlainDocs ==
    PlainItems \cup UNION {
        {ListDoc(items) : items \in [1..n -> PlainItems]}
        \cup {DictDoc(SubSeq(ROOT_KEYS, 1, n), items) :
                 items \in [1..n -> PlainItems]}
        : n \in 1..MaxEntries}

InitPlain ==
    /\ \E doc \in PlainDocs : P = Processor(doc, <<>>)
    /\ heap = <<>>
    /\ scopes = <<P.variable_map>>
    /\ chains = <<>>
    /\ root = VNull
    /\ stack = <<>>
    /\ pc = "start"
    /\ cur = NoCur
    /\ loc = NoLoc
    /\ merged = <<>>
    /\ err = ""
    /\ out = NoOutput
    /\ stdin = "start"
    /\ schema_location = VNull
    /\ call = NoCall

\* The document the output file holds: the tree that was written.
Written(h, v) == [root |-> v, nodes |-> h]

\* process_data is run again, on the output file of the run that ended.
Rerun ==
    /\ pc = "done"
    /\ P.in_filename # OUT_FILE
    /\ P' = [P EXCEPT !.in_filename = OUT_FILE,
                      !.files = (OUT_FILE :> Written(heap, out.root)) @@ @,
                      !.source = [first_line |-> NO_SCHEMA_LINE,
                                  doc |-> Written(heap, out.root)]]
    /\ heap' = <<>>
    /\ scopes' = <<P.variable_map>>
    /\ chains' = <<>>
    /\ root' = VNull
    /\ stack' = <<>>
    /\ pc' = "start"
    /\ cur' = NoCur
    /\ loc' = NoLoc
    /\ merged' = <<>>
    /\ err' = ""
    /\ out' = NoOutput
    /\ schema_location' = VNull
    /\ UNCHANGED <<stdin, call>>

NextPlain == Next \/ Rerun

SpecPlain == InitPlain /\ [][NextPlain]_vars

(***************************************************************************)
(* Runs on directives whose fragments hold directives again: with tokens   *)
(* in the INCLUDE path and in the VARIABLES values, fragments that are     *)
(* directives themselves, and two fragments that include each other.       *)
(***************************************************************************)
\* {INCLUDE: name, MERGE: true, VARIABLES: {names[i]: values[i]}} with the
\* MERGE key when merge = "true" and the VARIABLES key when there are names.
DirectiveWith(name, merge, names, values) ==
    DictDoc(
        <<INCLUDE_KEY>>
            \o (IF merge = "none" THEN <<>> ELSE <<MERGE_KEY>>)
            \o (IF names = <<>> THEN <<>> ELSE <<VARIABLES_KEY>>),
        <<Scalar(VStr(name))>>
            \o (IF merge = "none" THEN <<>>
                ELSE <<Scalar(VBool(merge = "true"))>>)
            \o (IF names = <<>> THEN <<>>
                ELSE <<DictDoc(names,
                               [i \in 1..Len(values) |->
                                   Scalar(VStr(values[i]))])>>))

\* The fragments, all in /r:
\*   n: [{INCLUDE: "$N"}]         g: ["1"]        v: ["2"]
\*   u: [{INCLUDE: w, VARIABLES: {N: "$N"}}]
\*   w: ["$N", "$M"]              s: "$N"
\*   c: {INCLUDE: w, VARIABLES: {M: c}}            cs: {INCLUDE: s}
\*   y: {INCLUDE: z}              z: {INCLUDE: y}
\*   d: {p: ["$N"], q: ["$M"]}
NestFragments ==
    (<<"/","r","/","n">> :>
         ListDoc(<<DirectiveWith(<<"$", "N">>, "none", <<>>, <<>>)>>))
    @@ (<<"/","r","/","g">> :> ListDoc(<<Scalar(VStr(<<"1">>))>>))
    @@ (<<"/","r","/","v">> :> ListDoc(<<Scalar(VStr(<<"2">>))>>))
    @@ (<<"/","r","/","u">> :>
         ListDoc(<<DirectiveWith(<<"w">>, "none", <<<<"N">>>>,
                                 <<<<"$", "N">>>>)>>))
    @@ (<<"/","r","/","w">> :>
         ListDoc(<<Scalar(TOKEN_N), Scalar(VStr(<<"$", "M">>))>>))
    @@ (<<"/","r","/","s">> :> Scalar(TOKEN_N))
    @@ (<<"/","r","/","c">> :>
         DirectiveWith(<<"w">>, "none", <<<<"M">>>>, <<<<"c">>>>))
    @@ (<<"/","r","/","c","s">> :>
         DirectiveWith(<<"s">>, "none", <<>>, <<>>))
    @@ (<<"/","r","/","y">> :> DirectiveWith(<<"z">>, "none", <<>>, <<>>))
    @@ (<<"/","r","/","z">> :> DirectiveWith(<<"y">>, "none", <<>>, <<>>))
    @@ (<<"/","r","/","d">> :>
         DictDoc(<<<<"p">>, <<"q">>>>,
                 <<ListDoc(<<Scalar(TOKEN_N)>>),
                   ListDoc(<<Scalar(VStr(<<"$", "M">>))>>)>>))

NestNames ==
    {<<"n">>, <<"u">>, <<"w">>, <<"c">>, <<"c", "s">>, <<"y">>, <<"d">>}

\* The directives of the root document: without VARIABLES, binding N, or
\* binding N and M.
NestItems ==
    {DirectiveWith(name, merge, SubSeq(<<<<"N">>, <<"M">>>>, 1, n),
                   SubSeq(<<<<"v">>, <<"v">>>>, 1, n)) :
        name \in NestNames, merge \in {"none", "true"}, n \in 0..2}

NestRootDocs ==
    NestItems
    \cup {ListDoc(<<item>>) : item \in NestItems}
    \cup {DictDoc(<<<<"a">>>>, <<item>>) : item \in NestItems}

NestProcessor(doc) ==
    [Processor(doc, <<>>) EXCEPT
        !.files = NestFragments @@ (ROOT_FILE :> doc),
        !.variable_map = (<<"N">> :> VStr(<<"g">>)) @@ (<<"M">> :> VStr(<<"h">>))]

InitNest ==
    /\ \E doc \in NestRootDocs : P = NestProcessor(doc)
    /\ heap = <<>>
    /\ scopes = <<P.variable_map>>
    /\ chains = <<>>
    /\ root = VNull
    /\ stack = <<>>
    /\ pc = "start"
    /\ cur = NoCur
    /\ loc = NoLoc
    /\ merged = <<>>
    /\ err = ""
    /\ out = NoOutput
    /\ stdin = "start"
    /\ schema_location = VNull
    /\ call = NoCall

SpecNest == InitNest /\ [][Next]_vars

(***************************************************************************)
(* Runs with a list or a dict held by include_dict under the name f, which *)
(* the root document includes once or twice, with different VARIABLES.     *)
(***************************************************************************)
CACHE_NAME == <<"f">>

\* The fragment of include_dict: ["$N"] or {b: "$N"}.
CacheDocs ==
    {ListDoc(<<Scalar(TOKEN_N)>>),
     DictDoc(<<<<"b">>>>, <<Scalar(TOKEN_N)>>)}

CacheItems ==
    {Directive(CACHE_NAME, "none", <<"v">>),
     Directive(CACHE_NAME, "none", <<"w">>),
     Directive(CACHE_NAME, "none", <<>>),
     Scalar(TOKEN_N)}

CacheRootDocs ==
    UNION {
        {ListDoc(items) : items \in [1..n -> CacheItems]}
        \cup {DictDoc(SubSeq(ROOT_KEYS, 1, n), items) :
                 items \in [1..n -> CacheItems]}
        : n \in 1..MaxEntries}

\* The object of the fragment exists before the run, as the first of the
\* heap, and include_dict holds it.
InitCache ==
    /\ \E doc \in CacheRootDocs, cached \in CacheDocs :
          /\ P = Processor(doc, CACHE_NAME :> cached.root)
          /\ heap = cached.nodes
    /\ scopes = <<P.variable_map>>
    /\ chains = <<>>
    /\ root = VNull
    /\ stack = <<>>
    /\ pc = "start"
    /\ cur = NoCur
    /\ loc = NoLoc
    /\ merged = <<>>
    /\ err = ""
    /\ out = NoOutput
    /\ stdin = "start"
    /\ schema_location = VNull
    /\ call = NoCall

SpecCache == InitCache /\ [][Next]_vars

(***************************************************************************)
(* Properties of a run of process_data.                                    *)
(***************************************************************************)
\* The objects of the tree under v.
RECURSIVE Reach(_, _)
Reach(h, v) ==
    IF ~IsRef(v) THEN {}
    ELSE {v.n} \cup UNION {Reach(h, h[v.n].vals[i]) :
                              i \in 1..Len(h[v.n].vals)}

\* The root document as it is in the root source.
RootDoc == P.source.doc

\* The entries of the root document when it is a list or a dict (its
\* first object), and whether entry i is a directive with MERGE: true.
RootEntries == RootDoc.nodes[1].vals

IsMergeEntry(nodes, v) == IsInclude(nodes, v) /\ IsMergeByValue(nodes, v)

\* The fragment file a directive of the root document names.
FragmentOf(v) ==
    P.files[<<"/", "r", "/">> \o DictGet(RootDoc.nodes[v.n], INCLUDE_KEY).s]

\* C1: when process_data completes with include processing enabled, no
\* node of the output tree, at any depth, has the shape of a directive.
C1_NoDirectiveLeft ==
    (pc = "done" /\ P.is_process_include) =>
        \A id \in Reach(heap, out.root) : ~IsInclude(heap, VRef(id))

\* The number of entries the i-th entry of a root list stands for once
\* resolved: those of the included list for a directive with MERGE: true,
\* one for any other entry.
ResolvedLen(v) ==
    IF IsMergeEntry(RootDoc.nodes, v) THEN Len(FragmentOf(v).nodes[1].vals)
    ELSE 1

RECURSIVE SumResolvedLen(_)
SumResolvedLen(entries) ==
    IF entries = <<>> THEN 0
    ELSE ResolvedLen(Head(entries)) + SumResolvedLen(Tail(entries))

\* A root list whose directives with MERGE: true all include lists.
IsSplicedList ==
    /\ IsRef(RootDoc.root)
    /\ RootDoc.nodes[1].kind = "list"
    /\ \E i \in 1..Len(RootEntries) : IsMergeEntry(RootDoc.nodes, RootEntries[i])
    /\ \A i \in 1..Len(RootEntries) :
          \/ RootEntries[i] = TOKEN_N
          \/ /\ IsMergeEntry(RootDoc.nodes, RootEntries[i])
             /\ DictGet(RootDoc.nodes[RootEntries[i].n], INCLUDE_KEY).s
                    \in {<<"e">>, <<"l">>, <<"d">>}

\* C2: for a sequence P ++ [D] ++ S with D a MERGE directive including the
\* sequence L, the resolved sequence is P' ++ L' ++ S': every directive
\* entry is gone, the elements of each L stand at its place, and the
\* resolved entries of P and S stand before and after them.
C2_SplicedInPlace ==
    (pc = "done" /\ P.is_process_include /\ IsSplicedList) =>
        /\ Len(heap[out.root.n].vals) = SumResolvedLen(RootEntries)
        /\ \A j \in 1..Len(heap[out.root.n].vals) :
              ~IsInclude(heap, heap[out.root.n].vals[j])
        /\ \A i \in 1..Len(RootEntries) :
              RootEntries[i] = TOKEN_N =>
                  heap[out.root.n].vals[
                      SumResolvedLen(SubSeq(RootEntries, 1, i))]
                  = ProcessVariable(P, TOKEN_N, P.variable_map).val

\* C3: in a map merge, a key of the included map that is also a key of the
\* enclosing map keeps the included value: the original entry under that
\* key is passed over and neither overwrites nor re-processes it.
C3_MergedValueWins ==
    \A id \in DOMAIN merged : \A k \in DOMAIN merged[id] :
        /\ DictHas(heap[id], k)
        /\ DictGet(heap[id], k) = merged[id][k]

C3_Witness ==
    /\ pc = "done"
    /\ IsRef(out.root)
    /\ RootDoc.nodes[1].keys = <<<<"a">>, <<"b">>>>
    /\ out.root.n \in DOMAIN merged
    /\ <<"b">> \in DOMAIN merged[out.root.n]

\* C4: a directive whose MERGE key is absent or false is replaced as a
\* whole by the resolved value: nothing is spliced into the enclosing
\* container and no container-kind check is made.
C4_ReplacedAsAWhole ==
    (/\ loc.valid
     /\ P.is_process_include
     /\ IsInclude(heap, loc.item)
     /\ ~IsMergeByValue(heap, loc.item)) =>
        /\ ~(pc = "failed" /\ err = "TypeError")
        /\ heap[loc.data.n] = Assign(loc.before, loc.idx, loc.key, loc.include_data)

\* C5: a directive with MERGE: true below the root whose resolved value is
\* of another kind than the enclosing container makes process_data fail
\* with the TypeError of line 341, the container left as it was.
C5_MismatchFails ==
    (/\ loc.valid
     /\ P.is_process_include
     /\ IsInclude(heap, loc.item)
     /\ IsMergeByValue(heap, loc.item)
     /\ TypeOf(heap, loc.include_data) # loc.kind) =>
        /\ pc = "failed"
        /\ err = "TypeError"
        /\ heap[loc.data.n] = loc.before

C5_Witness ==
    /\ pc = "failed"
    /\ err = "TypeError"
    /\ loc.valid
    /\ IsMergeByValue(heap, loc.item)
    /\ TypeOf(heap, loc.include_data) # loc.kind
    /\ loc.hops # <<>>

\* C6: the VARIABLES of a directive reach only what that directive loaded:
\* every container is iterated, and every worklist entry is held, under
\* the scope the scoping rule gives it (the initial map overlaid with the
\* VARIABLES of the directives it was loaded through); an entry is
\* substituted under the scope of its container whatever its siblings
\* brought in; and the processor's own variable_map stays as it was.
C6_ScopesIsolated ==
    /\ scopes[SELF_VARIABLE_MAP] = P.variable_map
    /\ \A i \in 1..Len(stack) :
          scopes[stack[i].variable_map] = stack[i].g_scope
    /\ cur.variable_map # 0 => scopes[cur.variable_map] = cur.g_scope
    /\ loc.valid =>
          /\ loc.item = ProcessVariable(P, loc.item0, loc.g_scope).val
          /\ scopes[loc.variable_map_x] = ScopeAfter(loc.g_scope, loc.hops)

\* A directive with VARIABLES was resolved first in the root container and
\* its sibling after it.
C6_Witness ==
    /\ pc = "done"
    /\ IsRef(RootDoc.root)
    /\ Len(RootEntries) = 2
    /\ IsInclude(RootDoc.nodes, RootEntries[1])
    /\ DictHas(RootDoc.nodes[RootEntries[1].n], VARIABLES_KEY)
    /\ RootEntries[2] = TOKEN_N
    /\ \E i \in 1..Len(scopes) : scopes[i][<<"N">>] = VStr(<<"v">>)
    /\ heap[out.root.n].vals[Len(heap[out.root.n].vals)] = VStr(<<"g">>)

\* The fragments fetched by the calls of load_include_file whose results
\* the state holds.
HopsSeen == loc.hops \o cur.hops

\* C8: an include string that is a key of include_dict gets the value held
\* there, with no search and no file loaded, also when a file of that name
\* exists in a search directory; any other include string gets the file
\* the search finds.
C8_IncludeDictFirst ==
    \A i \in 1..Len(HopsSeen) :
        IF HopsSeen[i].include_filename.s \in DOMAIN P.include_dict
        THEN /\ HopsSeen[i].source = "include_dict"
             /\ HopsSeen[i].loaded_value
                    = P.include_dict[HopsSeen[i].include_filename.s]
             /\ HopsSeen[i].filename = HopsSeen[i].include_filename.s
        ELSE /\ HopsSeen[i].source = "file"
             /\ HopsSeen[i].filename
                    = GetFilename(P, HopsSeen[i].include_filename.s,
                                  HopsSeen[i].parent_filenames).val.s

C8_Witness ==
    /\ loc.valid
    /\ loc.hops # <<>>
    /\ loc.hops[1].source = "include_dict"
    /\ GetFilename(P, loc.hops[1].include_filename.s,
                   loc.hops[1].parent_filenames).err = ""
    /\ loc.include_data = P.include_dict[loc.hops[1].include_filename.s]

(***************************************************************************)
(* Properties of get_filename.                                             *)
(***************************************************************************)
Reverse(seq) == [i \in 1..Len(seq) |-> seq[Len(seq) + 1 - i]]

\* The order of search with the nearest ancestor first: parent_filenames
\* has the root file first and the nearest ancestor last.
NearestFirstDirs(parent_filenames) ==
    Reverse(ParentDirs(P, parent_filenames)) \o <<P.cwd>> \o P.include_paths

FirstIn(dirs, filename) ==
    FirstOf({i \in 1..Len(dirs) : Exists(P, Join(dirs[i], filename))}, 0)

IsRelativeName(filename) ==
    /\ ~IsAbs(ExpandUser(P, filename))
    /\ filename # STDIN_NAME

Returned(op) == pc = "returned" /\ call.op = op

\* C7: for a relative name, get_filename returns the first existing
\* candidate in this order: the directory of the nearest ancestor file,
\* then of each farther one up to the root file, then the current working
\* directory, then the include paths in their order; with no candidate it
\* raises the not-found error.
C7_NearestAncestorFirst ==
    (Returned("get_filename") /\ IsRelativeName(call.arg.filename)) =>
        IF FirstIn(NearestFirstDirs(call.arg.parent_filenames),
                   call.arg.filename) = 0
        THEN call.result.err = "OSError: ENOENT"
        ELSE call.result
             = Ok(VStr(Join(
                   NearestFirstDirs(call.arg.parent_filenames)[
                       FirstIn(NearestFirstDirs(call.arg.parent_filenames),
                               call.arg.filename)],
                   call.arg.filename)))

(***************************************************************************)
(* Properties of process_variable.                                         *)
(***************************************************************************)
\* A piece that is a token: $NAME, ${NAME} or ${NAME.cast}.
IsTokenPiece(piece) == Len(piece) > 1 /\ piece[1] = "$"

TokenNameOf(piece) == TokenAt(piece, 1).name

HasCast(piece) == IsTokenPiece(piece) /\ TokenAt(piece, 1).cast # <<>>

\* What the resolution order gives for the name of a live token.
ByOrder(piece) ==
    IF TokenNameOf(piece) \in DOMAIN P.variable_map
    THEN Ok(P.variable_map[TokenNameOf(piece)])
    ELSE IF StartsWith(TokenNameOf(piece), YP_TIME)
    THEN ProcessTimeVariable(P, TokenNameOf(piece))
    ELSE IF P.unbound_placeholder = VNull
    THEN Raise("UnboundVariableError", TokenNameOf(piece))
    ELSE IF P.unbound_placeholder = VStr(UNBOUND_ORIGINAL)
    THEN Ok(VStr(piece))
    ELSE Ok(P.unbound_placeholder)

\* The rule of escapes applied to the pieces of a string, from the left:
\* n is the length of the run of backslashes just passed, ret the text so
\* far, looked the names looked up so far.
RECURSIVE EscapeRule(_, _, _, _)

EscapeToken(pieces, n, ret, looked, value) ==
    IF value.err # "" THEN Looked(value, looked)
    ELSE EscapeRule(Tail(pieces), 0,
                    ret \o Backslashes(n \div 2) \o value.val.s, looked)

EscapeRule(pieces, n, ret, looked) ==
    IF pieces = <<>> THEN Looked(Ok(VStr(ret \o Backslashes(n))), looked)
    ELSE IF Head(pieces) = <<"\\">>
    THEN EscapeRule(Tail(pieces), n + 1, ret, looked)
    ELSE IF ~IsTokenPiece(Head(pieces))
    THEN EscapeRule(Tail(pieces), 0,
                    ret \o Backslashes(n) \o Head(pieces), looked)
    ELSE IF n % 2 = 0
    THEN EscapeToken(pieces, n, ret,
                     Append(looked, TokenNameOf(Head(pieces))),
                     ByOrder(Head(pieces)))
    ELSE EscapeToken(pieces, n, ret, looked, Ok(VStr(Head(pieces))))

\* A string with a token in it, none with a cast.
HasPlainTokens(pieces) ==
    /\ \E i \in 1..Len(pieces) : IsTokenPiece(pieces[i])
    /\ \A i \in 1..Len(pieces) : ~HasCast(pieces[i])

\* C9: a token after a run of n backslashes: for n even it is resolved and
\* n/2 backslashes come before its value; for n odd its text is kept as it
\* is after n \div 2 backslashes and its name is never looked up, so no
\* UnboundVariableError comes of it under any scope or policy.
C9_EscapeParity ==
    (Returned("process_variable") /\ HasPlainTokens(call.arg.pieces)) =>
        call.result = EscapeRule(call.arg.pieces, 0, <<>>, <<>>)

\* The text before and after the only token of a string of plain pieces.
OneLiveToken(pieces) ==
    /\ Cardinality({i \in 1..Len(pieces) : IsTokenPiece(pieces[i])}) = 1
    /\ \A i \in 1..Len(pieces) :
          /\ ~HasCast(pieces[i])
          /\ pieces[i] \notin {<<"\\">>, <<"$">>}

TokenIndex(pieces) == CHOOSE i \in 1..Len(pieces) : IsTokenPiece(pieces[i])

Around(pieces, value) ==
    IF value.err # "" THEN value
    ELSE Ok(VStr(Concat(SubSeq(pieces, 1, TokenIndex(pieces) - 1))
                 \o value.val.s
                 \o Concat(SubSeq(pieces, TokenIndex(pieces) + 1,
                                  Len(pieces)))))

\* C10: a live token is resolved in this order: the value bound to its
\* name in the scope, also for a name with the time prefix; else, for a
\* name with the time prefix, what _process_time_variable gives; else by
\* the unbound policy: UnboundVariableError with the name, the text of the
\* token as it is, or the placeholder.
C10_ResolutionOrder ==
    (Returned("process_variable") /\ OneLiveToken(call.arg.pieces)) =>
        /\ call.result.err
               = Around(call.arg.pieces,
                        ByOrder(call.arg.pieces[TokenIndex(call.arg.pieces)])).err
        /\ call.result.arg
               = Around(call.arg.pieces,
                        ByOrder(call.arg.pieces[TokenIndex(call.arg.pieces)])).arg
        /\ call.result.val
               = Around(call.arg.pieces,
                        ByOrder(call.arg.pieces[TokenIndex(call.arg.pieces)])).val

\* A name with the time prefix that the scope binds was resolved.
C10_Witness ==
    /\ Returned("process_variable")
    /\ OneLiveToken(call.arg.pieces)
    /\ StartsWith(TokenNameOf(call.arg.pieces[TokenIndex(call.arg.pieces)]),
                  YP_TIME)
    /\ TokenNameOf(call.arg.pieces[TokenIndex(call.arg.pieces)])
           \in DOMAIN P.variable_map
    /\ call.result.err = ""

\* A string whose only token has a cast, among blanks and backslashes.
OneCastToken(pieces) ==
    /\ Cardinality({i \in 1..Len(pieces) : IsTokenPiece(pieces[i])}) = 1
    /\ \A i \in 1..Len(pieces) :
          \/ HasCast(pieces[i])
          \/ pieces[i] \in {<<" ">>, <<"\\">>}

\* The number of backslash pieces just before piece i.
EscapesBefore(pieces, i) ==
    CHOOSE n \in 0..(i - 1) :
        /\ \A k \in (i - n)..(i - 1) : pieces[k] = <<"\\">>
        /\ (i - n - 1 >= 1 => pieces[i - n - 1] # <<"\\">>)

\* The token with a cast is live (after an even run of backslashes) and
\* its name is bound in the scope.
LiveResolvedCast(pieces) ==
    /\ OneCastToken(pieces)
    /\ EscapesBefore(pieces, TokenIndex(pieces)) % 2 = 0
    /\ TokenNameOf(pieces[TokenIndex(pieces)]) \in DOMAIN P.variable_map

\* C11: a live, resolved token with a cast is accepted only when it is the
\* whole input string: with any text before it, any text after it, or a run
\* of backslashes before it, process_variable raises the bad substitution
\* expression error and returns no value.
C11_CastOnlyWholeString ==
    (Returned("process_variable") /\ LiveResolvedCast(call.arg.pieces)) =>
        IF Len(call.arg.pieces) = 1
        THEN call.result.err = "" /\ call.result.val.t = "int"
        ELSE call.result.err = "ValueError: bad substitution expression"

\* The value is the word but for the case of its letters.
EqualsIgnoringCase(value, word) ==
    /\ Len(value) = Len(word)
    /\ \A i \in 1..Len(word) : value[i] \in {word[i], UpperChar(word[i])}

IsTrueText(value) ==
    \E w \in {<<"t","r","u","e">>, <<"y","e","s">>, <<"1">>} :
        EqualsIgnoringCase(value, w)

IsFalseText(value) ==
    \E w \in {<<"f","a","l","s","e">>, <<"n","o">>, <<"0">>} :
        EqualsIgnoringCase(value, w)

\* C12: for a whole-string token ${NAME.bool} the result is the boolean
\* true when the resolved value is, whatever its case, one of true, yes, 1;
\* the boolean false when it is one of false, no, 0; and the bad
\* substitution value error for every other resolved value.
C12_BoolCast ==
    (Returned("process_variable") /\ call.arg.cast = CAST_BOOL) =>
        IF IsTrueText(call.arg.value)
        THEN call.result.err = "" /\ call.result.val = VBool(TRUE)
        ELSE IF IsFalseText(call.arg.value)
        THEN call.result.err = "" /\ call.result.val = VBool(FALSE)
        ELSE /\ call.result.err = "ValueError: bad substitution value"
             /\ call.result.arg = call.arg.value

(***************************************************************************)
(* Properties of _process_time_variable.                                   *)
(***************************************************************************)
\* The base instant of a name that starts with one of the two tags.
BaseInstant(prefix) ==
    IF StartsWith(prefix, YP_TIME_NOW) THEN P.time_now ELSE P.time_ref

HasTag(prefix) == prefix \in {YP_TIME_NOW, YP_TIME_REF}

\* The deltas of the modifiers of a name, in the order of the name.
DeltasInOrder(pieces) == [i \in 1..Len(pieces) |-> pieces[i].delta_args]

\* The instant after the deltas were added one after another, from the
\* first to the last.
RECURSIVE OneAfterAnother(_, _)
OneAfterAnother(dto, deltas) ==
    IF deltas = <<>> THEN dto
    ELSE OneAfterAnother(AddDelta(dto, Head(deltas)).val, Tail(deltas))

OnlyModifiers(pieces) ==
    \A i \in 1..Len(pieces) : pieces[i].kind = "delta"

\* C13: the AT, PLUS and MINUS modifiers of a time variable name are
\* applied to the base instant one after another in the order in which
\* they appear in the name, whatever modifiers the name has and in
\* whatever order.
C13_ModifiersInOrder ==
    (/\ Returned("_process_time_variable")
     /\ HasTag(call.arg.prefix)
     /\ OnlyModifiers(call.arg.pieces)) =>
        call.result
        = Ok(VStr(StrftimeWithColonZ(
                      OneAfterAnother(BaseInstant(call.arg.prefix),
                                      DeltasInOrder(call.arg.pieces)),
                      P.time_formats[<<>>])))

\* AT before MINUS gave the instant of the test, which is not the one the
\* other order gives.
C13_Witness ==
    /\ Returned("_process_time_variable")
    /\ call.arg.name = YP_TIME_REF \o <<"_", "A", "T", "_", "1", "D", "T", "0", "H", "0", "M", "0", "S">>
                                   \o <<"_", "M", "I", "N", "U", "S", "_", "T", "1", "2", "H">>
    /\ P.time_ref = Instant(2022, 2, 20, 22, 2, 0, TRUE, 0)
    /\ call.result.val.s = <<"2", "0", "2", "2", "-", "0", "1", "-", "3", "1", "T", "1", "2", ":", "0", "0", ":", "0", "0", "Z">>
    /\ call.result.val.s
           # StrftimeWithColonZ(
                 OneAfterAnother(P.time_ref,
                                 <<call.arg.pieces[2].delta_args,
                                   call.arg.pieces[1].delta_args>>),
                 P.time_formats[<<>>])

\* A name the grammar of time variables does not give: its tag is neither
\* NOW nor REF, or a piece of it is a modifier with no delta of the delta
\* grammar or another suffix, or its format is not a key of time_formats.
IsNoTimeName(prefix, pieces) ==
    \/ ~HasTag(prefix)
    \/ \E i \in 1..Len(pieces) :
          \/ pieces[i].kind = "junk"
          \/ /\ pieces[i].kind = "format"
             /\ pieces[i].key \notin DOMAIN P.time_formats

\* C14: for a name with the time prefix, _process_time_variable raises
\* UnboundVariableError with the whole name when the tag is neither NOW
\* nor REF, when a modifier is followed by a delta that is not of the delta
\* grammar or the name has another suffix that is not of the grammar, and
\* when the name after _FORMAT_ is not a key of the format table.
C14_UnboundTimeName ==
    (/\ Returned("_process_time_variable")
     /\ IsNoTimeName(call.arg.prefix, call.arg.pieces)) =>
        /\ call.result.err = "UnboundVariableError"
        /\ call.result.arg = call.arg.name

(***************************************************************************)
(* Properties of strftime_with_colon_z.                                    *)
(***************************************************************************)
\* The two digits of a number below 100.
TwoDigits(n) == <<DigitSeq[n \div 10 + 1], DigitSeq[n - 10 * (n \div 10) + 1]>>

\* The hours, the minutes of the hour and the seconds of the minute of an
\* offset of a seconds, a >= 0.
HH(a) == TwoDigits(a \div 3600)
MM(a) == TwoDigits((a - 3600 * (a \div 3600)) \div 60)
SS(a) == TwoDigits(a - 60 * (a \div 60))

\* The three renderings of an offset of s seconds, s # 0, with its sign.
Rendering(code, sign, a) ==
    CASE code = CODE_COLON_Z -> sign \o HH(a) \o <<":">> \o MM(a)
      [] code = CODE_COLON2_Z ->
            sign \o HH(a) \o <<":">> \o MM(a) \o <<":">> \o SS(a)
      [] code = CODE_COLON3_Z ->
            IF SS(a) # <<"0", "0">>
            THEN sign \o HH(a) \o <<":">> \o MM(a) \o <<":">> \o SS(a)
            ELSE IF MM(a) # <<"0", "0">>
            THEN sign \o HH(a) \o <<":">> \o MM(a)
            ELSE sign \o HH(a)

\* C15: for an instant with a UTC offset of s seconds, the renderings are:
\* for s = 0 the letter Z under the three codes and under the base numeric
\* code; for s # 0 the sign of s and the digits of |s| as HH:MM, as
\* HH:MM:SS, and in the short form as HH:MM:SS less every ":00" group at
\* its end.
C15_OffsetRenderings ==
    (Returned("strftime_with_colon_z") /\ call.arg.dto.aware) =>
        IF call.arg.dto.utcoffset = 0 THEN call.result = <<"Z">>
        ELSE call.arg.time_format # CODE_Z =>
                call.result
                = Rendering(call.arg.time_format,
                            IF call.arg.dto.utcoffset > 0 THEN <<"+">>
                            ELSE <<"-">>,
                            IF call.arg.dto.utcoffset > 0
                            THEN call.arg.dto.utcoffset
                            ELSE 0 - call.arg.dto.utcoffset)

\* An offset of whole hours west of Greenwich rendered in the short form,
\* two groups stripped.
C15_Witness ==
    /\ Returned("strftime_with_colon_z")
    /\ call.arg.dto.aware
    /\ call.arg.dto.utcoffset = 0 - 12 * 3600
    /\ call.arg.time_format = CODE_COLON3_Z
    /\ call.result = <<"-", "1", "2">>

(***************************************************************************)
(* Properties of the end of process_data: output and validation.           *)
(***************************************************************************)
\* The first line of the root source is a schema association line.
HasSchemaLine == SchemaOfLine(P.source.first_line, SCHEMA_PREFIXES) # VNull

\* The exceptions that leave validate_data.
ValidationErrors == {"ValidationError", "RefResolutionError"}

\* C16: in a run whose root source has a schema association line, the
\* resolved tree is in the output when validation starts; validation
\* changes neither the output nor the tree; and the run fails exactly when
\* validate_data raises.
C16_OutputBeforeValidation ==
    /\ [](HasSchemaLine /\ (pc = "validate" \/ err \in ValidationErrors)
            => out.written /\ out.root = root)
    /\ [][HasSchemaLine /\ pc = "validate"
            => /\ out' = out
               /\ heap' = heap
               /\ root' = root
               /\ pc' = IF ValidateData(P, heap, root, schema_location) = ""
                        THEN "done" ELSE "failed"]_vars

\* A list was written and then failed the schema, which asks for a mapping.
C16_Witness ==
    /\ HasSchemaLine
    /\ pc = "failed"
    /\ err = "ValidationError"
    /\ out.written
    /\ IsRef(out.root)
    /\ heap[out.root.n].kind = "list"
    /\ heap[out.root.n].vals = <<VStr(<<"g">>)>>

\* C17: a run that ends by an exception raised before validation (a file
\* not found, an unbound variable, a malformed substitution or a bad cast
\* value, a merge type mismatch) has neither opened nor written the
\* output, and it takes no step after the exception.
C17_NoOutputOnFailure ==
    /\ []((pc = "failed" /\ err \notin ValidationErrors) => out = NoOutput)
    /\ [][pc # "failed"]_vars

\* The second entry of a root list fails a merge, the first entry being
\* resolved already.
C17_Witness ==
    /\ pc = "failed"
    /\ err = "TypeError"
    /\ out = NoOutput
    /\ loc.valid
    /\ loc.kind = "list"
    /\ loc.idx = 1
    /\ RootEntries[1] = TOKEN_N
    /\ heap[root.n].vals[1] = VStr(<<"g">>)

(***************************************************************************)
(* Properties of process_data with include processing disabled.            *)
(***************************************************************************)
\* The output has the objects of the root document and no other, each of
\* its kind, with its keys and as many values, the same objects under them.
SameStructure ==
    /\ out.root = RootDoc.root
    /\ Len(heap) = Len(RootDoc.nodes)
    /\ \A i \in 1..Len(heap) :
          /\ heap[i].kind = RootDoc.nodes[i].kind
          /\ heap[i].keys = RootDoc.nodes[i].keys
          /\ Len(heap[i].vals) = Len(RootDoc.nodes[i].vals)
          /\ \A j \in 1..Len(heap[i].vals) :
                IsRef(RootDoc.nodes[i].vals[j]) =>
                    heap[i].vals[j] = RootDoc.nodes[i].vals[j]

\* No fragment was fetched.
NothingLoaded == cur.hops = <<>> /\ loc.hops = <<>> /\ merged = <<>>

\* C18: with include processing disabled, the output is the input tree
\* object for object, nothing loaded or spliced, and every directive of the
\* input is in the output with the same keys and values.
C18_DirectivesUntouched ==
    (pc = "done" /\ ~P.is_process_include) =>
        /\ SameStructure
        /\ NothingLoaded
        /\ \A i \in 1..Len(heap) :
              IsInclude(RootDoc.nodes, VRef(i)) => heap[i] = RootDoc.nodes[i]

\* C18 amended: with include processing disabled, the output is the input
\* tree object for object, nothing loaded or spliced, and every value held
\* in a list or dict, those of the directives too, is the input value
\* after substitution under the initial variable map.
C18_DirectivesInPlace ==
    (pc = "done" /\ ~P.is_process_include) =>
        /\ SameStructure
        /\ NothingLoaded
        /\ \A i \in 1..Len(heap) : \A j \in 1..Len(heap[i].vals) :
              heap[i].vals[j]
                  = ProcessVariable(P, RootDoc.nodes[i].vals[j],
                                    P.variable_map).val

\* Two directives and a string went through with include processing
\* disabled: both directives are in the output, the first with its INCLUDE
\* string substituted, and the string is substituted under the initial map
\* whatever the VARIABLES of the directive before it.
C18_Witness ==
    /\ pc = "done"
    /\ ~P.is_process_include
    /\ RootDoc = ListDoc(<<Directive(<<"$", "N">>, "none", <<>>),
                           Directive(<<"s">>, "none", <<"v">>)>>)
    /\ DictGet(heap[heap[out.root.n].vals[1].n], INCLUDE_KEY) = VStr(<<"g">>)
    /\ IsInclude(heap, heap[out.root.n].vals[2])
    /\ Len(heap) = 4

(***************************************************************************)
(* Properties of the schema association line.                              *)
(***************************************************************************)
\* C19: once the root source is loaded, from a file or from standard
\* input, a schema association line of either form on its first line has
\* given schema_location the location it names.
C19_SchemaLineDetected ==
    (pc # "start" /\ P.source.first_line \in {SHEBANG_LINE, SERVER_LINE}) =>
        schema_location = VStr(SCHEMA_FILE)

\* The same for a root source that is a file.
SchemaLineOfFileDetected ==
    P.in_filename # STDIN_NAME => C19_SchemaLineDetected

(***************************************************************************)
(* Properties of a root that is a directive.                               *)
(***************************************************************************)
IsRootDirective ==
    P.is_process_include /\ IsInclude(RootDoc.nodes, RootDoc.root)

\* The document the root directive ended on, as the file or include_dict
\* holds it, and the scope its VARIABLES give.
RootFragment ==
    IF cur.hops[Len(cur.hops)].source = "include_dict"
    THEN Scalar(P.include_dict[cur.hops[Len(cur.hops)].include_filename.s])
    ELSE P.files[cur.hops[Len(cur.hops)].filename]

RootScope == ScopeAfter(P.variable_map, cur.hops)

\* The output root is the list or dict of the fragment, entry for entry,
\* its strings substituted under the scope of the root directive.
RootContainerResolved ==
    /\ IsRef(out.root)
    /\ heap[out.root.n].kind = RootFragment.nodes[1].kind
    /\ heap[out.root.n].keys = RootFragment.nodes[1].keys
    /\ Len(heap[out.root.n].vals) = Len(RootFragment.nodes[1].vals)
    /\ \A j \in 1..Len(RootFragment.nodes[1].vals) :
          IsStr(RootFragment.nodes[1].vals[j]) =>
              heap[out.root.n].vals[j]
                  = ProcessVariable(P, RootFragment.nodes[1].vals[j],
                                    RootScope).val

\* The output root is the scalar of the fragment, substituted under the
\* scope of the root directive.
RootScalarResolved ==
    out.root = ProcessVariable(P, RootFragment.root, RootScope).val

\* C20: when the root of the root source is a directive, the directive
\* object is never iterated as a mapping; no merge type mismatch is raised,
\* whatever its MERGE key; and the output root is the value loaded for it,
\* not spliced into anything, its content substituted under the initial
\* map overlaid with the VARIABLES of the root directive.
C20_RootDirective ==
    IsRootDirective =>
        /\ pc = "iter" => cur.data # RootDoc.root
        /\ ~(pc = "failed" /\ err = "TypeError")
        /\ pc = "done" =>
              /\ cur.data = root
              /\ cur.hops # <<>>
              /\ IF IsRef(RootFragment.root) THEN RootContainerResolved
                 ELSE RootScalarResolved

(***************************************************************************)
(* Properties of the shape of a directive.                                 *)
(***************************************************************************)
\* The object of the map under test in the root document: the root, or
\* the one entry of the root list or dict.
ShapeId ==
    IF RootDoc.nodes[1].kind = "list" \/ RootDoc.nodes[1].keys = <<<<"a">>>>
    THEN 2 ELSE 1

\* A map of names to strings.
IsNamesToStrings(nodes, v) ==
    /\ IsRef(v)
    /\ nodes[v.n].kind = "dict"
    /\ \A j \in 1..Len(nodes[v.n].keys) :
          /\ IsVariableName(nodes[v.n].keys[j])
          /\ IsStr(nodes[v.n].vals[j])

\* The shape of a directive: a string INCLUDE; MERGE, if any, a boolean;
\* QUERY, if any, a string; VARIABLES, if any, a map of names to strings;
\* and no other key.
HasDirectiveShape(nodes, nd) ==
    /\ DictHas(nd, INCLUDE_KEY) /\ IsStr(DictGet(nd, INCLUDE_KEY))
    /\ DictHas(nd, MERGE_KEY) => DictGet(nd, MERGE_KEY).t = "bool"
    /\ DictHas(nd, QUERY_KEY) => IsStr(DictGet(nd, QUERY_KEY))
    /\ DictHas(nd, VARIABLES_KEY) =>
           IsNamesToStrings(nodes, DictGet(nd, VARIABLES_KEY))
    /\ \A i \in 1..Len(nd.keys) :
          nd.keys[i] \in {INCLUDE_KEY, MERGE_KEY, QUERY_KEY, VARIABLES_KEY}

Shaped == HasDirectiveShape(RootDoc.nodes, RootDoc.nodes[ShapeId])

\* The map under test is in the output where it was in the input.
ShapeInPlace ==
    IF ShapeId = 1 THEN out.root = VRef(1)
    ELSE /\ out.root = VRef(1)
         /\ heap[1].kind = RootDoc.nodes[1].kind
         /\ heap[1].keys = RootDoc.nodes[1].keys
         /\ heap[1].vals = <<VRef(ShapeId)>>

\* The value of an ordinary map after the traversal, for the input value
\* v: a scalar substituted, a directive resolved, any other map in place
\* with its values substituted.
TraversedValue(v, now) ==
    IF ~IsRef(v) THEN now = ProcessVariable(P, v, P.variable_map).val
    ELSE IF IsInclude(RootDoc.nodes, v) THEN now # v
    ELSE /\ now = v
         /\ heap[v.n].keys = RootDoc.nodes[v.n].keys
         /\ \A i \in 1..Len(heap[v.n].vals) :
               heap[v.n].vals[i]
                   = ProcessVariable(P, RootDoc.nodes[v.n].vals[i],
                                     P.variable_map).val

ShapeTraversed ==
    /\ heap[ShapeId].keys = RootDoc.nodes[ShapeId].keys
    /\ \A j \in 1..Len(heap[ShapeId].vals) :
          TraversedValue(RootDoc.nodes[ShapeId].vals[j], heap[ShapeId].vals[j])

\* C21: a map met by the traversal (as the root, a list entry or a dict
\* value) is taken for a directive exactly when it has the shape of one: a
\* fragment is fetched for it and it leaves its place.  A map that has not
\* the shape, with INCLUDE or without, raises nothing: it is in the output
\* at its place with its keys, its values traversed and substituted.
C21_DirectiveIffShape ==
    /\ pc = "failed" => Shaped
    /\ (loc.valid /\ ShapeId = 2 /\ loc.item = VRef(ShapeId)) =>
           (Shaped <=> loc.hops # <<>>)
    /\ (ShapeId = 1 /\ pc = "iter") => (Shaped <=> cur.hops # <<>>)
    /\ pc = "done" =>
           /\ Shaped <=> ~ShapeInPlace
           /\ ~Shaped => ShapeTraversed

\* A list entry with a string INCLUDE and one more key went through as
\* ordinary data: in place, its strings substituted.
C21_Witness ==
    /\ pc = "done"
    /\ RootDoc = ListDoc(<<ShapeDoc("str", "none", "none", "none", "key")>>)
    /\ heap[1].vals = <<VRef(2)>>
    /\ heap[2].keys = <<INCLUDE_KEY, OTHER_KEY>>
    /\ heap[2].vals = <<VStr(<<"m">>), VStr(<<"g">>)>>
    /\ Len(heap) = 2

(***************************************************************************)
(* Properties of a document with nothing to resolve.                       *)
(***************************************************************************)
\* The tree under v as a value: a scalar, or the kind, keys and values of
\* a list or dict.
RECURSIVE Render(_, _)
Render(h, v) ==
    IF ~IsRef(v) THEN v
    ELSE [kind |-> h[v.n].kind, keys |-> h[v.n].keys,
          vals |-> [i \in 1..Len(h[v.n].vals) |-> Render(h, h[v.n].vals[i])]]

\* The value is no string with a token in it, escaped or not.
IsTokenFree(v) == IsStr(v) => ~Match(v.s).matched

\* The document holds no directive and no token.
IsResolved(doc) ==
    /\ IsTokenFree(doc.root)
    /\ \A i \in 1..Len(doc.nodes) :
          /\ ~IsInclude(doc.nodes, VRef(i))
          /\ \A j \in 1..Len(doc.nodes[i].vals) :
                IsTokenFree(doc.nodes[i].vals[j])

AtSecondSpliced ==
    /\ pc = "iter"
    /\ loc.valid
    /\ loc.is_merge
    /\ loc.kind = "list"
    /\ loc.data = cur.data
    /\ cur.idx = loc.idx + 1
    /\ Len(heap[loc.include_data.n].vals) >= 2

\* C23: a value spliced in by a MERGE directive is resolved under the scope
\* and the filename chain of that directive: the second element spliced
\* into a list is visited with them, and every composite a map merge
\* brought in is pushed with them.
C23_SplicedUnderDirectiveScope ==
    /\ AtSecondSpliced =>
          /\ scopes[cur.variable_map] = scopes[loc.variable_map_x]
          /\ chains[cur.parent_filenames] = chains[loc.parent_filenames_x]
    /\ (loc.valid /\ loc.is_merge /\ loc.kind = "dict" /\ loc.data = cur.data
          /\ pc \in {"iter", "loop"}) =>
          \A j \in 1..Len(heap[loc.include_data.n].vals) :
              IsComposite(heap[loc.include_data.n].vals[j]) =>
                  \E i \in 1..Len(stack) :
                      /\ stack[i].data = heap[loc.include_data.n].vals[j]
                      /\ stack[i].variable_map = loc.variable_map_x
                      /\ stack[i].parent_filenames = loc.parent_filenames_x

(***************************************************************************)
(* Properties of the directives met inside loaded fragments.               *)
(***************************************************************************)
\* What the first iteration of load_include_file made of the directive nd
\* (as it was before the call, in the heap h) is what substitution under
\* scope gives: for the INCLUDE string and for each VARIABLES value.
FirstHopUnder(Q, h, nd, scope, r) ==
    r.hops # <<>> =>
        /\ r.hops[1].include_filename
              = ProcessVariable(Q, DictGet(nd, INCLUDE_KEY), scope).val
        /\ \A i \in 1..Len(VariablesOf(h, nd).vals) :
              r.hops[1].variables.vals[i]
                  = ProcessVariable(Q, VariablesOf(h, nd).vals[i], scope).val

\* C24: the INCLUDE string and the VARIABLES values of a directive the for
\* loop is about to resolve are substituted under the variable map of its
\* position, the one the loop passes to load_include_file.
C24_SubstitutedAtPosition ==
    (pc = "iter" /\ IsToInclude(P, heap, IterItem)) =>
        FirstHopUnder(P, heap, heap[IterItem.n], scopes[cur.variable_map],
                      LoadIncludeFile(P, heap, scopes, chains, IterItem,
                                      cur.parent_filenames, cur.variable_map))

\* The files the iterations of one call loaded, in load order.
HopFilenames(hops) == [i \in 1..Len(hops) |-> hops[i].filename]

\* The entry of the container at the place of the last pass.
EntryAt(nd, idx, key) ==
    IF nd.kind = "list" THEN nd.vals[idx + 1] ELSE DictGet(nd, key)

\* The last pass of the for loop resolved a chain of two directives or
\* more, the container being still the one iterated.
ChainResolved ==
    /\ pc \in {"iter", "loop"}
    /\ loc.valid
    /\ loc.data = cur.data
    /\ Len(loc.hops) >= 2

\* The scope and the filename chain the call returned for the chain: the
\* VARIABLES of every directive laid in order over the scope of the
\* position, and every file loaded appended in load order.
ChainScoped ==
    /\ ~IsInclude(heap, loc.include_data)
    /\ scopes[loc.variable_map_x]
          = ScopeAfter(scopes[cur.variable_map], loc.hops)
    /\ chains[loc.parent_filenames_x]
          = chains[cur.parent_filenames] \o HopFilenames(loc.hops)

\* The final value, put in place of the directive, is resolved with them:
\* a list or dict is pushed with them, a string is substituted under the
\* scope.
ChainValueResolved ==
    /\ IsComposite(loc.include_data) =>
          /\ stack # <<>>
          /\ stack[Len(stack)].data = loc.include_data
          /\ stack[Len(stack)].variable_map = loc.variable_map_x
          /\ stack[Len(stack)].parent_filenames = loc.parent_filenames_x
    /\ IsStr(loc.include_data) =>
          EntryAt(heap[loc.data.n], loc.idx, loc.key)
              = ProcessVariable(P, loc.include_data,
                                scopes[loc.variable_map_x]).val

\* C25: a chain of directives is followed to a value that is no directive,
\* and that value is resolved under the VARIABLES of every directive of
\* the chain, a later one over an earlier one, and with the filename chain
\* extended by every file loaded, in load order.
C25_ChainResolved ==
    ChainResolved =>
        /\ ChainScoped
        /\ ~loc.is_merge => ChainValueResolved

(***************************************************************************)
(* Properties of the scope and filename chain objects of the worklist.     *)
(***************************************************************************)
\* C26 as stated: no two worklist entries hold the same scope object or
\* the same filename chain object, and none holds the processor's own
\* variable_map.
C26_NoSharedObjects ==
    /\ \A i, j \in 1..Len(stack) :
          i # j => /\ stack[i].variable_map # stack[j].variable_map
                   /\ stack[i].parent_filenames # stack[j].parent_filenames
    /\ \A i \in 1..Len(stack) : stack[i].variable_map # SELF_VARIABLE_MAP

\* A step leaves every scope object and every chain object as it is.
ObjectsKept ==
    /\ Len(scopes') >= Len(scopes)
    /\ \A i \in 1..Len(scopes) : scopes'[i] = scopes[i]
    /\ Len(chains') >= Len(chains)
    /\ \A i \in 1..Len(chains) : chains'[i] = chains[i]

\* C26, amended: worklist entries may hold the same objects, but no scope
\* object and no filename chain object is modified once it exists, the
\* processor's own variable_map included: a step only adds objects.
C26_ObjectsNeverModified ==
    /\ [](scopes[SELF_VARIABLE_MAP] = P.variable_map)
    /\ [][ObjectsKept]_vars

\* Two entries pushed by one map merge hold the same scope object and the
\* same chain object, which the directive's VARIABLES extended from a copy
\* of the processor's map.
C26_Witness ==
    /\ Len(stack) >= 2
    /\ stack[1].variable_map = stack[2].variable_map
    /\ stack[1].parent_filenames = stack[2].parent_filenames
    /\ scopes[stack[1].variable_map][<<"N">>] = VStr(<<"v">>)
    /\ scopes[SELF_VARIABLE_MAP][<<"N">>] = VStr(<<"g">>)

(***************************************************************************)
(* Properties of the iteration of a list that a splice changes.            *)
(***************************************************************************)
\* What the loop body makes of an entry has been made of v: it is no
\* directive still to resolve, and substitution leaves it as it is.
IsHandled(Q, h, v, scope) ==
    /\ ~IsToInclude(Q, h, v)
    /\ ProcessVariable(Q, v, scope) = Ok(v)

\* The last pass spliced a list into the list that is iterated, and the
\* list still has an entry at the place of the directive: the first
\* spliced element, or, the included list being empty, the entry that
\* followed the directive.
AtSplice ==
    /\ pc \in {"iter", "loop"}
    /\ loc.valid
    /\ loc.is_merge
    /\ loc.kind = "list"
    /\ loc.data = cur.data
    /\ loc.idx < Len(heap[cur.data.n].vals)

\* C27: the iterator having moved past the place of the directive, the
\* entry now at that place has been through the loop body: an entry that
\* followed an empty splice under the scope of the list, a first spliced
\* element under the scope of the directive.
C27_EveryEntryVisited ==
    AtSplice =>
        IsHandled(P, heap, heap[cur.data.n].vals[loc.idx + 1],
                  IF heap[loc.include_data.n].vals = <<>>
                  THEN scopes[cur.variable_map]
                  ELSE scopes[loc.variable_map_x])

(***************************************************************************)
(* Properties of the strings of the output tree.                           *)
(***************************************************************************)
\* C28: variable processing being enabled, every string value of the tree
\* written has been through substitution: the values bound to the
\* variables holding no token, none is left in it, be the string the root
\* itself or an entry of a list or dict of the tree.
C28_EveryStringSubstituted ==
    (pc = "done" /\ P.is_process_variable) =>
        /\ IsTokenFree(out.root)
        /\ \A i \in Reach(heap, out.root) :
              \A j \in 1..Len(heap[i].vals) : IsTokenFree(heap[i].vals[j])

(***************************************************************************)
(* Properties of the fragments held by include_dict.                       *)
(***************************************************************************)
\* The fragment as include_dict held it before the run.
CachedBefore ==
    CHOOSE c \in CacheDocs : c.nodes[1].kind = heap[1].kind

\* What a fresh copy of the fragment becomes under a scope: its strings
\* substituted.
FreshResult(Q, c, scope) ==
    [kind |-> c.nodes[1].kind, keys |-> c.nodes[1].keys,
     vals |-> [i \in 1..Len(c.nodes[1].vals) |->
                  ProcessVariable(Q, c.nodes[1].vals[i], scope).val]]

\* C29: the fragment include_dict holds has at every point the content it
\* had before the run, and in the tree written each directive of the root
\* document has become what a fresh copy of the fragment gives under the
\* processor's map overlaid with that directive's VARIABLES.
C29_CacheUntouched ==
    /\ Render(heap, P.include_dict[CACHE_NAME])
          = Render(CachedBefore.nodes, CachedBefore.root)
    /\ pc = "done" =>
          \A i \in 1..Len(RootEntries) :
              IsInclude(RootDoc.nodes, RootEntries[i]) =>
                  Render(heap, heap[out.root.n].vals[i])
                      = FreshResult(
                            P, CachedBefore,
                            Overlay(P.variable_map,
                                    VariablesOf(RootDoc.nodes,
                                                RootDoc.nodes[RootEntries[i].n])))

(***************************************************************************)
(* Termination.                                                            *)
(***************************************************************************)
\* C30: every call of load_include_file returns, so that the run goes on
\* to completion or to a fatal error: the loop that follows a chain of
\* directives is never found still running after MaxHops fragments, also
\* when the fragments include each other in a cycle.
C30_IncludeLoopEnds == err # "(no return)"

====
